---- MODULE Spec2Model ----
(***************************************************************************)
(* Model of the stat-keeper ledger (class StatBook of app.py): the event   *)
(* log, the per-player counters, the dedupe window, the auto new point     *)
(* after an assist and the bounded undo history.                           *)
(*                                                                         *)
(* Time is the wall clock read by StatBook._now, counted in whole seconds. *)
(* One ledger operation runs at one instant: every _now() call inside one  *)
(* method reads the same value.  The display string "t" of an event        *)
(* (ts(), the clock formatted HH:MM:SS) is not part of the model.          *)
(*                                                                         *)
(* A name is a sequence of characters, so that lower() and strip() are     *)
(* computed and not assumed.                                               *)
(***************************************************************************)
EXTENDS Integers, Sequences, FiniteSets, TLC

VARIABLES BOOK, now, last, n_ops, text, parsed,
          AUDIO_Q, METRICS, worker, command, running, sink, tally

vars == <<BOOK, now, last, n_ops, text, parsed,
          AUDIO_Q, METRICS, worker, command, running, sink, tally>>

\* What the ledger operations leave alone.
not_ledger == <<text, parsed,
                AUDIO_Q, METRICS, worker, command, running, sink, tally>>

(* ------------------------------ bounds -------------------------------- *)

\* A behaviour issues at most MaxOps ledger operations other than undo.
MaxOps == 3

\* StatBook._history_max is 1000 in the program; the model runs the same
\* code with a small limit, so that the eviction of the oldest snapshot
\* happens within MaxOps operations.
HistoryMax == 2

\* A text given to parse_command has at most MaxWords pieces.
MaxWords == 4

\* The capacity of the audio queue (256 in the program), the number of
\* audio frames that arrive, and the number of commands that clients send.
QUEUE_MAXSIZE == 2

MaxFrames == 3

MaxCommands == 2

\* A point that is played out issues at most MaxPlayOps operations.
MaxPlayOps == 4

\* The instants (seconds of the wall clock) at which operations are issued:
\* they lie 0, 1, 4 and 5 seconds apart, on both sides of the throttle
\* (1.0 s) and of the dedupe window (4.0 s).
Instants == {2, 3, 7}

(* ----------------------------- constants ------------------------------ *)

DEDUPE_WINDOW_SEC == 4

\* new_point: an auto call is dropped when (now - _last_point_change) < 1.0
AUTO_THROTTLE_SEC == 1

\* broadcast_stats: "events": list(reversed(BOOK.events[-200:]))
EVENTS_SHOWN == 200

(* ------------------------------- names -------------------------------- *)

Jake == <<"j", "a", "k", "e">>
Mario == <<"m", "a", "r", "i", "o">>
Eli == <<"e", "l", "i">>

\* ROSTER, as written in the program (raw, before normalisation); the model
\* keeps two of its names.
ROSTER == { <<"J", "a", "k", "e">>, <<"M", "a", "r", "i", "o">> }

\* Names as callers pass them: a stored roster name, a roster name with a
\* capital and a trailing blank, a name that is not on the roster, and a
\* blank name.
MarioRaw == <<"M", "a", "r", "i", "o", " ">>
Blank == <<" ">>

\* The arguments the operations are called with.
DNames == {Jake, Blank}
DropNames == {MarioRaw}
ScoreNames == {Eli}
AssistNames == {Jake, MarioRaw}
AssistToPairs == { <<Jake, MarioRaw>>, <<Jake, Eli>> }
Throws == { <<Jake, MarioRaw, "completed">>, <<Jake, MarioRaw, "turn">>,
            <<Jake, Eli, "completed">>, <<MarioRaw, Jake, "completed">> }
Hucks == { <<Jake, MarioRaw, "completed">>, <<Jake, MarioRaw, "turn">> }
Outcomes == {"completed", "turn"}

\* Python's None, as a name and as an event.
None == <<"<None>">>
NoneEv == [type |-> "<None>"]

LowerChar(c) ==
    CASE c = "J" -> "j"
      [] c = "M" -> "m"
      [] OTHER -> c

\* str.lower()
lower(s) == [i \in 1..Len(s) |-> LowerChar(s[i])]

RECURSIVE lstrip(_)
lstrip(s) == IF s # <<>> /\ Head(s) = " " THEN lstrip(Tail(s)) ELSE s

RECURSIVE rstrip(_)
rstrip(s) ==
    IF s # <<>> /\ s[Len(s)] = " " THEN rstrip(SubSeq(s, 1, Len(s) - 1)) ELSE s

\* str.strip()
strip(s) == lstrip(rstrip(s))

(* --------------------------- StatBook: state -------------------------- *)

roster == { strip(lower(r)) : r \in { q \in ROSTER : strip(q) # <<>> } }

_blank ==
    [ds |-> 0, assists |-> 0, scores |-> 0,
     throws |-> 0, completions |-> 0, turnovers |-> 0,
     hucks |-> 0, huck_completions |-> 0,
     drops |-> 0]

reset ==
    [game_no |-> 1,
     point_no |-> 1,
     events |-> <<>>,
     players |-> [n \in roster |-> _blank],
     history |-> <<>>,
     last_point_change |-> 0]

_snapshot(b) ==
    [game_no |-> b.game_no,
     point_no |-> b.point_no,
     events_len |-> Len(b.events),
     players |-> b.players]

_push_history(b) ==
    LET h == Append(b.history, _snapshot(b))
    IN  [b EXCEPT !.history = IF Len(h) > HistoryMax THEN Tail(h) ELSE h]

\* undo that restores the last snapshot and leaves it on the history
\* (pop() of line 116 read as [-1]).
undo_keeps_history(b) ==
    IF b.history = <<>>
    THEN [book |-> b, ret |-> FALSE]
    ELSE LET m == b.history[Len(b.history)]
         IN  [book |-> [b EXCEPT
                          !.game_no = m.game_no,
                          !.point_no = m.point_no,
                          !.players = m.players,
                          !.events = SubSeq(b.events, 1,
                                        IF m.events_len < Len(b.events)
                                        THEN m.events_len ELSE Len(b.events))],
              ret |-> TRUE]

\* undo returns False on an empty history, else restores the last snapshot.
undo(b) ==
    IF b.history = <<>>
    THEN [book |-> b, ret |-> FALSE]
    ELSE LET m == b.history[Len(b.history)]
         IN  [book |-> [b EXCEPT
                          !.history = SubSeq(b.history, 1, Len(b.history) - 1),
                          !.game_no = m.game_no,
                          !.point_no = m.point_no,
                          !.players = m.players,
                          !.events = SubSeq(b.events, 1,
                                        IF m.events_len < Len(b.events)
                                        THEN m.events_len ELSE Len(b.events))],
              ret |-> TRUE]

\* _ensure: the normalised name n that it returns ...
norm(name) == strip(lower(name))

\* ... and the players with n added when it is new and not blank.
_ensure(b, name) ==
    LET n == norm(name)
    IN  IF n = <<>> \/ n \in DOMAIN b.players
        THEN b
        ELSE [b EXCEPT !.players =
                [k \in DOMAIN b.players \cup {n} |->
                    IF k \in DOMAIN b.players THEN b.players[k] ELSE _blank]]

add_event(b, ev) == [b EXCEPT !.events = Append(b.events, ev)]

inc(b, n, c) == [b EXCEPT !.players[n][c] = @ + 1]

\* dict.get
Get(ev, k) == IF k \in DOMAIN ev THEN ev[k] ELSE None

_now == now

\* Scan of events[1..i], newest first, for a completed throw/huck by x
\* (to y when y is given) of the current game and point.
RECURSIVE scan_completed(_, _, _, _, _)
scan_completed(b, x, y, within, i) ==
    IF i = 0 THEN NoneEv
    ELSE LET ev == b.events[i]
         IN  IF Get(ev, "game") # b.game_no \/ Get(ev, "point") # b.point_no
             THEN scan_completed(b, x, y, within, i - 1)
             ELSE IF Get(ev, "type") \notin {"throw", "huck"}
             THEN scan_completed(b, x, y, within, i - 1)
             ELSE IF Get(ev, "outcome") # "completed"
             THEN scan_completed(b, x, y, within, i - 1)
             ELSE IF Get(ev, "thrower") # x
             THEN scan_completed(b, x, y, within, i - 1)
             ELSE IF y # None /\ Get(ev, "receiver") # y
             THEN scan_completed(b, x, y, within, i - 1)
             ELSE IF _now - ev.ts_epoch <= within
             THEN ev
             ELSE NoneEv

\* _find_recent_completed without the check of the thrower (line 152).
RECURSIVE scan_completed_any_thrower(_, _, _, _, _)
scan_completed_any_thrower(b, x, y, within, i) ==
    IF i = 0 THEN NoneEv
    ELSE LET ev == b.events[i]
         IN  IF Get(ev, "game") # b.game_no \/ Get(ev, "point") # b.point_no
             THEN scan_completed_any_thrower(b, x, y, within, i - 1)
             ELSE IF Get(ev, "type") \notin {"throw", "huck"}
             THEN scan_completed_any_thrower(b, x, y, within, i - 1)
             ELSE IF Get(ev, "outcome") # "completed"
             THEN scan_completed_any_thrower(b, x, y, within, i - 1)
             ELSE IF y # None /\ Get(ev, "receiver") # y
             THEN scan_completed_any_thrower(b, x, y, within, i - 1)
             ELSE IF _now - ev.ts_epoch <= within
             THEN ev
             ELSE NoneEv

find_recent_completed_any_thrower(b, x, y, within) ==
    scan_completed_any_thrower(b, x, y, within, Len(b.events))

\* _find_recent_completed without the check of the game and point
\* (line 146).
RECURSIVE scan_completed_any_point(_, _, _, _, _)
scan_completed_any_point(b, x, y, within, i) ==
    IF i = 0 THEN NoneEv
    ELSE LET ev == b.events[i]
         IN  IF Get(ev, "type") \notin {"throw", "huck"}
             THEN scan_completed_any_point(b, x, y, within, i - 1)
             ELSE IF Get(ev, "outcome") # "completed"
             THEN scan_completed_any_point(b, x, y, within, i - 1)
             ELSE IF Get(ev, "thrower") # x
             THEN scan_completed_any_point(b, x, y, within, i - 1)
             ELSE IF y # None /\ Get(ev, "receiver") # y
             THEN scan_completed_any_point(b, x, y, within, i - 1)
             ELSE IF _now - ev.ts_epoch <= within
             THEN ev
             ELSE NoneEv

find_recent_completed_any_point(b, x, y, within) ==
    scan_completed_any_point(b, x, y, within, Len(b.events))

\* _find_recent_completed with "<" for "<=" in the test of the window
\* (line 157).
RECURSIVE scan_completed_strict(_, _, _, _, _)
scan_completed_strict(b, x, y, within, i) ==
    IF i = 0 THEN NoneEv
    ELSE LET ev == b.events[i]
         IN  IF Get(ev, "game") # b.game_no \/ Get(ev, "point") # b.point_no
             THEN scan_completed_strict(b, x, y, within, i - 1)
             ELSE IF Get(ev, "type") \notin {"throw", "huck"}
             THEN scan_completed_strict(b, x, y, within, i - 1)
             ELSE IF Get(ev, "outcome") # "completed"
             THEN scan_completed_strict(b, x, y, within, i - 1)
             ELSE IF Get(ev, "thrower") # x
             THEN scan_completed_strict(b, x, y, within, i - 1)
             ELSE IF y # None /\ Get(ev, "receiver") # y
             THEN scan_completed_strict(b, x, y, within, i - 1)
             ELSE IF _now - ev.ts_epoch < within
             THEN ev
             ELSE NoneEv

find_recent_completed_strict(b, x, y, within) ==
    scan_completed_strict(b, x, y, within, Len(b.events))

\* _find_recent_completed that gives up at the first event of another
\* player or receiver (break for continue at lines 153 and 155).
RECURSIVE scan_completed_no_skip(_, _, _, _, _)
scan_completed_no_skip(b, x, y, within, i) ==
    IF i = 0 THEN NoneEv
    ELSE LET ev == b.events[i]
         IN  IF Get(ev, "game") # b.game_no \/ Get(ev, "point") # b.point_no
             THEN scan_completed_no_skip(b, x, y, within, i - 1)
             ELSE IF Get(ev, "type") \notin {"throw", "huck"}
             THEN scan_completed_no_skip(b, x, y, within, i - 1)
             ELSE IF Get(ev, "outcome") # "completed"
             THEN scan_completed_no_skip(b, x, y, within, i - 1)
             ELSE IF Get(ev, "thrower") # x
             THEN NoneEv
             ELSE IF y # None /\ Get(ev, "receiver") # y
             THEN NoneEv
             ELSE IF _now - ev.ts_epoch <= within
             THEN ev
             ELSE NoneEv

find_recent_completed_no_skip(b, x, y, within) ==
    scan_completed_no_skip(b, x, y, within, Len(b.events))

_find_recent_completed(b, x, y, within) ==
    scan_completed(b, x, y, within, Len(b.events))

\* Scan of events[1..i], newest first, for an assist by x of the current
\* game and point: the newest one decides.
RECURSIVE scan_assist(_, _, _, _)
scan_assist(b, x, within, i) ==
    IF i = 0 THEN FALSE
    ELSE LET ev == b.events[i]
         IN  IF Get(ev, "game") # b.game_no \/ Get(ev, "point") # b.point_no
             THEN scan_assist(b, x, within, i - 1)
             ELSE IF Get(ev, "type") # "assist"
             THEN scan_assist(b, x, within, i - 1)
             ELSE IF Get(ev, "player") # x
             THEN scan_assist(b, x, within, i - 1)
             ELSE (_now - ev.ts_epoch) <= within

_has_recent_assist(b, x, within) == scan_assist(b, x, within, Len(b.events))

(* ------------------------- StatBook: control -------------------------- *)

new_game(b) ==
    LET b1 == _push_history(b)
        b2 == [b1 EXCEPT !.game_no = @ + 1,
                         !.point_no = 1,
                         !.events = <<>>,
                         !.players = [n \in DOMAIN b1.players |-> _blank],
                         !.last_point_change = _now]
    IN  add_event(b2, [ts_epoch |-> _now, type |-> "new_game",
                       game |-> b2.game_no, point |-> b2.point_no])

\* new_point without the throttle of the auto call (line 200).
new_point_never_throttled(b, push_history, reason) ==
    LET b1 == IF push_history THEN _push_history(b) ELSE b
        b2 == [b1 EXCEPT !.point_no = @ + 1,
                         !.last_point_change = _now]
    IN  add_event(b2, [ts_epoch |-> _now, type |-> "new_point",
                       game |-> b2.game_no, point |-> b2.point_no])

\* new_point that does not record the time of the point change (line 205).
new_point_keeps_last_change(b, push_history, reason) ==
    IF reason = "auto" /\ (_now - b.last_point_change) < AUTO_THROTTLE_SEC
    THEN b
    ELSE LET b1 == IF push_history THEN _push_history(b) ELSE b
             b2 == [b1 EXCEPT !.point_no = @ + 1]
         IN  add_event(b2, [ts_epoch |-> _now, type |-> "new_point",
                            game |-> b2.game_no, point |-> b2.point_no])

\* new_point that pushes a snapshot whatever push_history says (line 202).
new_point_always_pushes(b, push_history, reason) ==
    IF reason = "auto" /\ (_now - b.last_point_change) < AUTO_THROTTLE_SEC
    THEN b
    ELSE LET b1 == _push_history(b)
             b2 == [b1 EXCEPT !.point_no = @ + 1,
                              !.last_point_change = _now]
         IN  add_event(b2, [ts_epoch |-> _now, type |-> "new_point",
                            game |-> b2.game_no, point |-> b2.point_no])

new_point(b, push_history, reason) ==
    IF reason = "auto" /\ (_now - b.last_point_change) < AUTO_THROTTLE_SEC
    THEN b
    ELSE LET b1 == IF push_history THEN _push_history(b) ELSE b
             b2 == [b1 EXCEPT !.point_no = @ + 1,
                              !.last_point_change = _now]
         IN  add_event(b2, [ts_epoch |-> _now, type |-> "new_point",
                            game |-> b2.game_no, point |-> b2.point_no])

(* -------------------------- StatBook: events -------------------------- *)

record_d(b, name) ==
    LET b1 == _ensure(_push_history(b), name)
        x == norm(name)
    IN  IF x = <<>> THEN b1
        ELSE add_event(inc(b1, x, "ds"),
                       [ts_epoch |-> _now, type |-> "d", player |-> x,
                        game |-> b1.game_no, point |-> b1.point_no])

record_drop(b, name) ==
    LET b1 == _ensure(_push_history(b), name)
        x == norm(name)
    IN  IF x = <<>> THEN b1
        ELSE add_event(inc(b1, x, "drops"),
                       [ts_epoch |-> _now, type |-> "drop", player |-> x,
                        game |-> b1.game_no, point |-> b1.point_no])

record_score(b, name) ==
    LET b1 == _ensure(_push_history(b), name)
        y == norm(name)
    IN  IF y = <<>> THEN b1
        ELSE add_event(inc(b1, y, "scores"),
                       [ts_epoch |-> _now, type |-> "score", player |-> y,
                        game |-> b1.game_no, point |-> b1.point_no])

assist_event(b, x) ==
    [ts_epoch |-> _now, type |-> "assist", player |-> x,
     game |-> b.game_no, point |-> b.point_no]

score_event(b, y) ==
    [ts_epoch |-> _now, type |-> "score", player |-> y,
     game |-> b.game_no, point |-> b.point_no]

\* record_assist whose dedup branch forgets the inferred score
\* (lines 245-249).
record_assist_no_inferred_score(b, name) ==
    LET b1 == _ensure(_push_history(b), name)
        x == norm(name)
        recent == _find_recent_completed(b1, x, None, DEDUPE_WINDOW_SEC)
    IN  IF x = <<>> THEN b1
        ELSE IF recent # NoneEv
        THEN new_point(add_event(inc(b1, x, "assists"), assist_event(b1, x)),
                       FALSE, "auto")
        ELSE LET b2 == inc(inc(inc(b1, x, "assists"), x, "throws"),
                           x, "completions")
                 b3 == add_event(b2, assist_event(b2, x))
             IN  new_point(b3, FALSE, "auto")

record_assist(b, name) ==
    LET b1 == _ensure(_push_history(b), name)
        x == norm(name)
        recent == _find_recent_completed(b1, x, None, DEDUPE_WINDOW_SEC)
    IN  IF x = <<>> THEN b1
        ELSE IF recent # NoneEv
        THEN \* only assist (and the inferred score)
             LET b2 == add_event(inc(b1, x, "assists"), assist_event(b1, x))
                 y == Get(recent, "receiver")
                 b3 == IF y # None /\ y # <<>>
                       THEN add_event(inc(b2, y, "scores"), score_event(b2, y))
                       ELSE b2
             IN  new_point(b3, FALSE, "auto")
        ELSE \* normal path
             LET b2 == inc(inc(inc(b1, x, "assists"), x, "throws"),
                           x, "completions")
                 b3 == add_event(b2, assist_event(b2, x))
             IN  new_point(b3, FALSE, "auto")

\* record_throw that counts a completion for a turn as well (else of
\* line 289 left out).
record_throw_turn_also_completes(b, namex, namey, result) ==
    LET b1 == _ensure(_ensure(_push_history(b), namex), namey)
        x == norm(namex)
        y == norm(namey)
    IN  IF x = <<>> \/ y = <<>> THEN b1
        ELSE IF _has_recent_assist(b1, x, DEDUPE_WINDOW_SEC) THEN b1
        ELSE LET b2 == inc(b1, x, "throws")
                 b3 == IF result = "turn"
                       THEN inc(inc(b2, x, "turnovers"), x, "completions")
                       ELSE inc(b2, x, "completions")
             IN  add_event(b3, [ts_epoch |-> _now, type |-> "throw",
                                thrower |-> x, receiver |-> y,
                                outcome |-> result,
                                game |-> b3.game_no, point |-> b3.point_no])

record_throw(b, namex, namey, result) ==
    LET b1 == _ensure(_ensure(_push_history(b), namex), namey)
        x == norm(namex)
        y == norm(namey)
    IN  IF x = <<>> \/ y = <<>> THEN b1
        ELSE IF _has_recent_assist(b1, x, DEDUPE_WINDOW_SEC) THEN b1
        ELSE LET b2 == inc(b1, x, "throws")
                 b3 == IF result = "turn" THEN inc(b2, x, "turnovers")
                       ELSE inc(b2, x, "completions")
             IN  add_event(b3, [ts_epoch |-> _now, type |-> "throw",
                                thrower |-> x, receiver |-> y,
                                outcome |-> result,
                                game |-> b3.game_no, point |-> b3.point_no])

\* record_huck that counts no huck completion (line 317).
record_huck_no_huck_completion(b, namex, namey, result) ==
    LET b1 == _ensure(_ensure(_push_history(b), namex), namey)
        x == norm(namex)
        y == norm(namey)
    IN  IF x = <<>> \/ y = <<>> THEN b1
        ELSE IF _has_recent_assist(b1, x, DEDUPE_WINDOW_SEC) THEN b1
        ELSE LET b2 == inc(inc(b1, x, "throws"), x, "hucks")
                 b3 == IF result = "turn" THEN inc(b2, x, "turnovers")
                       ELSE inc(b2, x, "completions")
             IN  add_event(b3, [ts_epoch |-> _now, type |-> "huck",
                                thrower |-> x, receiver |-> y,
                                outcome |-> result,
                                game |-> b3.game_no, point |-> b3.point_no])

record_huck(b, namex, namey, result) ==
    LET b1 == _ensure(_ensure(_push_history(b), namex), namey)
        x == norm(namex)
        y == norm(namey)
    IN  IF x = <<>> \/ y = <<>> THEN b1
        ELSE IF _has_recent_assist(b1, x, DEDUPE_WINDOW_SEC) THEN b1
        ELSE LET b2 == inc(inc(b1, x, "throws"), x, "hucks")
                 b3 == IF result = "turn" THEN inc(b2, x, "turnovers")
                       ELSE inc(inc(b2, x, "completions"),
                                x, "huck_completions")
             IN  add_event(b3, [ts_epoch |-> _now, type |-> "huck",
                                thrower |-> x, receiver |-> y,
                                outcome |-> result,
                                game |-> b3.game_no, point |-> b3.point_no])

record_assist_to(b, namex, namey) ==
    LET b1 == _ensure(_ensure(_push_history(b), namex), namey)
        x == norm(namex)
        y == norm(namey)
        recent == _find_recent_completed(b1, x, y, DEDUPE_WINDOW_SEC)
    IN  IF x = <<>> \/ y = <<>> THEN b1
        ELSE IF recent # NoneEv
        THEN LET b2 == add_event(inc(b1, x, "assists"), assist_event(b1, x))
                 b3 == add_event(inc(b2, y, "scores"), score_event(b2, y))
             IN  new_point(b3, FALSE, "auto")
        ELSE LET b2 == inc(inc(inc(b1, x, "assists"), x, "throws"),
                           x, "completions")
                 b3 == add_event(b2, assist_event(b2, x))
                 b4 == add_event(inc(b3, y, "scores"), score_event(b3, y))
             IN  new_point(b4, FALSE, "auto")

(* ------------------------ grammar and parsing ------------------------- *)

\* The words that the patterns of parse_command and the phrases of
\* build_grammar_phrases are written with.
Word ==
    [ uh |-> <<"u", "h">>,
      um |-> <<"u", "m">>,
      like |-> <<"l", "i", "k", "e">>,
      and |-> <<"a", "n", "d">>,
      then |-> <<"t", "h", "e", "n">>,
      now |-> <<"n", "o", "w">>,
      okay |-> <<"o", "k", "a", "y">>,
      ok |-> <<"o", "k">>,
      alright |-> <<"a", "l", "r", "i", "g", "h", "t">>,
      new |-> <<"n", "e", "w">>,
      game |-> <<"g", "a", "m", "e">>,
      point |-> <<"p", "o", "i", "n", "t">>,
      undo |-> <<"u", "n", "d", "o">>,
      revert |-> <<"r", "e", "v", "e", "r", "t">>,
      go |-> <<"g", "o">>,
      back |-> <<"b", "a", "c", "k">>,
      scratch |-> <<"s", "c", "r", "a", "t", "c", "h">>,
      that |-> <<"t", "h", "a", "t">>,
      cancel |-> <<"c", "a", "n", "c", "e", "l">>,
      last |-> <<"l", "a", "s", "t">>,
      d |-> <<"d">>,
      drop |-> <<"d", "r", "o", "p">>,
      drops |-> <<"d", "r", "o", "p", "s">>,
      assist |-> <<"a", "s", "s", "i", "s", "t">>,
      assists |-> <<"a", "s", "s", "i", "s", "t", "s">>,
      score |-> <<"s", "c", "o", "r", "e">>,
      scores |-> <<"s", "c", "o", "r", "e", "s">>,
      to |-> <<"t", "o">>,
      completed |-> <<"c", "o", "m", "p", "l", "e", "t", "e", "d">>,
      complete |-> <<"c", "o", "m", "p", "l", "e", "t", "e">>,
      completion |-> <<"c", "o", "m", "p", "l", "e", "t", "i", "o", "n">>,
      turn |-> <<"t", "u", "r", "n">>,
      turnover |-> <<"t", "u", "r", "n", "o", "v", "e", "r">>,
      turned |-> <<"t", "u", "r", "n", "e", "d">>,
      threw |-> <<"t", "h", "r", "e", "w">>,
      throw |-> <<"t", "h", "r", "o", "w">>,
      passe |-> <<"p", "a", "s", "s", "e">>,
      passed |-> <<"p", "a", "s", "s", "e", "d">>,
      huck |-> <<"h", "u", "c", "k">>,
      hucked |-> <<"h", "u", "c", "k", "e", "d">>,
      hook |-> <<"h", "o", "o", "k">>,
      two |-> <<"2">> ]

\* str.split(" "): the pieces of s between its blanks (two blanks in a row
\* have an empty piece between them).
RECURSIVE split(_)
split(s) ==
    IF s = <<>> THEN << <<>> >>
    ELSE LET r == split(Tail(s))
         IN  IF Head(s) = " " THEN << <<>> >> \o r
             ELSE << <<Head(s)>> \o Head(r) >> \o Tail(r)

\* The pieces that are words: what \s+ separates.
words(pieces) == SelectSeq(pieces, LAMBDA w : w # <<>>)

\* " ".join
RECURSIVE join(_)
join(ws) ==
    IF ws = <<>> THEN <<>>
    ELSE IF Len(ws) = 1 THEN ws[1]
    ELSE ws[1] \o <<" ">> \o join(Tail(ws))

OUTCOME_WORDS ==
    {Word.completed, Word.complete, Word.completion,
     Word.turn, Word.turnover, Word.turned}

\* RESULT_WORDS.get(w.lower(), w.lower()) if w else None
norm_result(w) ==
    CASE w = None -> "<None>"
      [] w \in {Word.complete, Word.completion, Word.completed} -> "completed"
      [] w \in {Word.turnover, Word.turn, Word.turned} -> "turn"
      [] OTHER -> lower(w)

\* The name pattern: one alternative per roster name, its words separated
\* by \s+ (an alternative is the sequence of the words of the name).
build_name_regex(r) ==
    { words(split(lower(strip(n)))) : n \in { q \in r : strip(q) # <<>> } }

\* The phrase made of the parts p, one blank between two parts.
phrase(p) == join(p)

GRAMMAR_OUTCOMES ==
    {Word.completed, Word.complete, Word.completion,
     Word.turn, Word.turnover, Word.turned}
GRAMMAR_THROW_VERBS == {Word.threw, Word.throw, Word.passed}
GRAMMAR_HUCK_VERBS == {Word.huck, Word.hucked, Word.hook}

\* "x <words of mid> to y", alone and followed by each outcome word.
with_outcomes(x, mid, y) ==
    {phrase(<<x>> \o mid \o <<Word.to, y>>)}
      \cup { phrase(<<x>> \o mid \o <<Word.to, y, o>>) : o \in GRAMMAR_OUTCOMES }

build_grammar_phrases(r) ==
    LET names == { strip(lower(n)) : n \in { q \in r : strip(q) # <<>> } }
        pairs == { p \in names \X names : p[1] # p[2] }
    IN  { phrase(<<Word.new, Word.game>>), phrase(<<Word.new, Word.point>>),
          phrase(<<Word.undo>>), phrase(<<Word.undo, Word.last>>),
          phrase(<<Word.revert>>), phrase(<<Word.go, Word.back>>),
          phrase(<<Word.scratch, Word.that>>),
          phrase(<<Word.cancel, Word.last>>) }
        \cup { phrase(<<n, k>>) :
                 n \in names,
                 k \in {Word.d, Word.assist, Word.assists, Word.score,
                        Word.scores, Word.drop, Word.drops} }
        \cup UNION { with_outcomes(p[1], <<>>, p[2]) : p \in pairs }
        \cup { phrase(<<p[1], k, Word.to, p[2]>>) :
                 p \in pairs, k \in {Word.turn, Word.turnover} }
        \cup UNION { with_outcomes(p[1], <<v>>, p[2]) :
                       p \in pairs,
                       v \in GRAMMAR_THROW_VERBS \cup GRAMMAR_HUCK_VERBS }
        \cup { phrase(<<p[1], k, Word.to, p[2]>>) :
                 p \in pairs, k \in {Word.assist, Word.assists} }

FILLERS ==
    {Word.uh, Word.um, Word.like, Word.and, Word.then, Word.now,
     Word.okay, Word.ok, Word.alright}

\* Lines 422-423: strip, lower, and every filler word replaced by nothing
\* (the blanks on both sides of it stay).
normalize(t) ==
    LET ws == split(lower(strip(t)))
    IN  [i \in 1..Len(ws) |-> IF ws[i] \in FILLERS THEN <<>> ELSE ws[i]]

\* \bnew\s+(?:game|point)\b, for the second words in what
has_new(T, what) ==
    \E i \in 1..(Len(T) - 1) : T[i] = Word.new /\ T[i + 1] \in what

\* has_undo with re.match for re.search (line 433): the undo word is looked
\* for at the start of the text only.
has_undo_at_start(pieces) ==
    /\ pieces # <<>>
    /\ \/ pieces[1] \in {Word.undo, Word.revert}
       \/ /\ 1 < Len(pieces)
          /\ <<pieces[1], pieces[2]>>
               \in { <<Word.go, Word.back>>, <<Word.scratch, Word.that>>,
                     <<Word.cancel, Word.last>> }

\* \b(undo|revert|go back|scratch that|cancel last)\b: the two-word phrases
\* are written with one blank, so their words are neighbouring pieces.
has_undo(pieces) ==
    \E i \in 1..Len(pieces) :
        \/ pieces[i] \in {Word.undo, Word.revert}
        \/ /\ i < Len(pieces)
           /\ <<pieces[i], pieces[i + 1]>>
                \in { <<Word.go, Word.back>>, <<Word.scratch, Word.that>>,
                      <<Word.cancel, Word.last>> }

\* The alternatives of the name pattern that match the words of T from
\* place i on.
name_at(T, i, pats) ==
    { p \in pats : i + Len(p) - 1 <= Len(T) /\ SubSeq(T, i, i + Len(p) - 1) = p }

\* \b{roster_regex}\b somewhere in the text
has_name(T, pats) == \E i \in 1..Len(T) : name_at(T, i, pats) # {}

\* ^\s*(?P<x>name)\s+(kw)\b, followed by $ when anchored: the names x that
\* match.
single(T, pats, kw, anchored) ==
    { p \in name_at(T, 1, pats) :
        /\ Len(T) > Len(p)
        /\ T[Len(p) + 1] \in kw
        /\ anchored => Len(T) = Len(p) + 1 }

\* ^\s*(?P<x>name)\s+ mid \s+(?P<y>name)(?:\s+(?P<r>outcome))?\s*$ : the
\* matches, where mid gives the words allowed at each place between the
\* names and the outcome word is allowed when with_result.
pair(T, pats, mid, with_result) ==
    { m \in [x : pats, y : pats, r : OUTCOME_WORDS \cup {None}] :
        LET n == Len(m.x) + Len(mid) + Len(m.y)
        IN  /\ Len(T) = n + (IF m.r = None THEN 0 ELSE 1)
            /\ m.r # None => (with_result /\ T[Len(T)] = m.r)
            /\ SubSeq(T, 1, Len(m.x)) = m.x
            /\ \A j \in 1..Len(mid) : T[Len(m.x) + j] \in mid[j]
            /\ SubSeq(T, Len(m.x) + Len(mid) + 1, n) = m.y }

\* The alternatives are tried longest name first: the match that the regex
\* engine returns.
longest(P) == CHOOSE p \in P : \A q \in P : Len(join(q)) <= Len(join(p))
first_match(M) ==
    CHOOSE m \in M : \A q \in M :
        \/ Len(join(q.x)) < Len(join(m.x))
        \/ Len(join(q.x)) = Len(join(m.x)) /\ Len(join(q.y)) <= Len(join(m.y))

\* (action, payload); None is "<None>" for the action and the result.
parsed_as(action, x, y, result) ==
    [action |-> action, x |-> x, y |-> y, result |-> result]
no_match == parsed_as("<None>", None, None, "<None>")

parse_command(t, roster_regex) ==
    LET pieces == normalize(t)
        T == words(pieces)
        TO == {Word.to, Word.two}
        d == single(T, roster_regex, {Word.d}, FALSE)
        drop == single(T, roster_regex, {Word.drop, Word.drops}, TRUE)
        assist == single(T, roster_regex, {Word.assist, Word.assists}, TRUE)
        score == single(T, roster_regex, {Word.score, Word.scores}, TRUE)
        assist_to == pair(T, roster_regex,
                          <<{Word.assist, Word.assists}, {Word.to}>>, FALSE)
        result_to == pair(T, roster_regex, <<OUTCOME_WORDS, TO>>, FALSE)
        bare == pair(T, roster_regex, <<TO>>, TRUE)
        verb == pair(T, roster_regex,
                     <<{Word.threw, Word.throw, Word.passe, Word.passed}, TO>>,
                     TRUE)
        huck_verbs == {Word.huck, Word.hucked, Word.hook}
        huck == pair(T, roster_regex, <<huck_verbs, {Word.to}>>, TRUE)
                  \cup pair(T, roster_regex, <<huck_verbs>>, TRUE)
        both(action, M) ==
            LET m == first_match(M)
            IN  parsed_as(action, join(m.x), join(m.y), norm_result(m.r))
    IN  IF ~ ( \/ has_new(T, {Word.game, Word.point})
               \/ has_undo(pieces)
               \/ has_name(T, roster_regex) )
        THEN no_match
        ELSE IF has_undo(pieces) THEN parsed_as("undo", None, None, "<None>")
        ELSE IF has_new(T, {Word.game})
        THEN parsed_as("new_game", None, None, "<None>")
        ELSE IF has_new(T, {Word.point})
        THEN parsed_as("new_point", None, None, "<None>")
        ELSE IF d # {} THEN parsed_as("d", join(longest(d)), None, "<None>")
        ELSE IF drop # {}
        THEN parsed_as("drop", join(longest(drop)), None, "<None>")
        ELSE IF assist # {}
        THEN parsed_as("assist", join(longest(assist)), None, "<None>")
        ELSE IF score # {}
        THEN parsed_as("score", None, join(longest(score)), "<None>")
        ELSE IF assist_to # {}
        THEN LET m == first_match(assist_to)
             IN  parsed_as("assist_to", join(m.x), join(m.y), "<None>")
        ELSE IF result_to # {}
        THEN LET m == first_match(result_to)
             IN  parsed_as("throw", join(m.x), join(m.y),
                           norm_result(T[Len(m.x) + 1]))
        ELSE IF bare # {} THEN both("throw", bare)
        ELSE IF verb # {} THEN both("throw", verb)
        ELSE IF huck # {} THEN both("huck", huck)
        ELSE no_match

(* ------------------- the audio queue and the metrics ------------------ *)

\* An audio frame is a number, 1 for the first frame that arrives, 2 for
\* the second, ...; NoData is the empty frame (b"").
NoData == 0

\* METRICS, as the program starts
METRICS_START ==
    [chunks_enqueued |-> 0, chunks_dropped |-> 0, chunks_processed |-> 0,
     commands_applied |-> 0, q_max |-> 0,
     last_chunk_ts |-> 0, last_result_ts |-> 0]

\* AUDIO_Q.put_nowait(item): the queue after it, and whether it raised Full.
put_nowait(q, item) ==
    IF Len(q) < QUEUE_MAXSIZE
    THEN [q |-> Append(q, item), raised |-> FALSE]
    ELSE [q |-> q, raised |-> TRUE]

\* AUDIO_Q.get_nowait(): the queue after it, and whether it raised Empty.
get_nowait(q) ==
    IF q # <<>>
    THEN [q |-> Tail(q), raised |-> FALSE]
    ELSE [q |-> q, raised |-> TRUE]

\* on_audio_chunk whose overflow path keeps the queue as it is and drops the
\* frame that arrives (lines 671 and 675 left out).
on_audio_chunk_drops_newest(q, m, data) ==
    IF data = NoData THEN [q |-> q, m |-> m]
    ELSE LET p == put_nowait(q, data)
         IN  IF ~p.raised
             THEN [q |-> p.q,
                   m |-> [m EXCEPT !.chunks_enqueued = @ + 1,
                                   !.q_max = IF Len(p.q) > @ THEN Len(p.q)
                                             ELSE @,
                                   !.last_chunk_ts = _now]]
             ELSE [q |-> q, m |-> [m EXCEPT !.chunks_dropped = @ + 1]]

\* on_audio_chunk(data): the queue and the metrics after it.
on_audio_chunk(q, m, data) ==
    IF data = NoData THEN [q |-> q, m |-> m]
    ELSE LET p == put_nowait(q, data)
         IN  IF ~p.raised
             THEN [q |-> p.q,
                   m |-> [m EXCEPT !.chunks_enqueued = @ + 1,
                                   !.q_max = IF Len(p.q) > @ THEN Len(p.q)
                                             ELSE @,
                                   !.last_chunk_ts = _now]]
             ELSE \* queue full: drop one to stay realtime
                  LET g == get_nowait(q)
                      m1 == IF g.raised THEN m
                            ELSE [m EXCEPT !.chunks_dropped = @ + 1]
                  IN  [q |-> put_nowait(g.q, data).q, m |-> m1]

(* --------------------------- the presentation ------------------------- *)

RECURSIVE reversed(_)
reversed(s) == IF s = <<>> THEN <<>> ELSE Append(reversed(Tail(s)), Head(s))

\* What broadcast_stats emits: game, point, every player's counters and the
\* newest EVENTS_SHOWN events, newest first.  (The order of the rows is not
\* modelled: players is the set of rows.)
broadcast_stats(b) ==
    LET n == Len(b.events)
        recent == SubSeq(b.events,
                         IF n > EVENTS_SHOWN THEN n - EVENTS_SHOWN + 1 ELSE 1,
                         n)
    IN  [game |-> b.game_no, point |-> b.point_no,
         players |-> b.players, events |-> reversed(recent)]

\* Nothing has been emitted yet.
NothingEmitted == [game |-> 0, point |-> 0, players |-> <<>>, events |-> <<>>]

(* ------------------ applying an action to the ledger ------------------ *)

\* The first thing a ledger operation does: every operation but undo pushes
\* a snapshot on the history; undo pops the newest one.
begin(action, b) ==
    IF action = "undo"
    THEN IF b.history = <<>> THEN b
         ELSE [b EXCEPT !.history = SubSeq(b.history, 1, Len(b.history) - 1)]
    ELSE _push_history(b)

\* The ledger after the whole operation (lines 754-776 and 641-649).
apply_action(p, b) ==
    CASE p.action = "undo" -> undo(b).book
      [] p.action = "new_game" -> new_game(b)
      [] p.action = "new_point" -> new_point(b, TRUE, "manual")
      [] p.action = "d" -> record_d(b, p.x)
      [] p.action = "drop" -> record_drop(b, p.x)
      [] p.action = "assist" -> record_assist(b, p.x)
      [] p.action = "score" -> record_score(b, p.y)
      [] p.action = "assist_to" -> record_assist_to(b, p.x, p.y)
      [] p.action = "throw" -> record_throw(b, p.x, p.y, p.result)
      [] p.action = "huck" -> record_huck(b, p.x, p.y, p.result)
      [] OTHER -> b

\* Lines 735-738: the default outcome of a throw or huck.
with_default_outcome(p) ==
    IF p.action \in {"throw", "huck"} /\ p.result \in {"<None>", "completed"}
    THEN [p EXCEPT !.result = "completed"]
    ELSE p

\* Lines 741-747: the required fields of p that are missing.
missing(p) ==
    LET REQUIRED ==
          CASE p.action \in {"d", "drop", "assist"} -> {"x"}
            [] p.action = "score" -> {"y"}
            [] p.action = "assist_to" -> {"x", "y"}
            [] p.action \in {"throw", "huck"} -> {"x", "y", "result"}
            [] OTHER -> {}
    IN  { k \in REQUIRED :
            IF k = "result" THEN p[k] \in {"<None>", ""}
            ELSE p[k] \in {None, <<>>} }


(* -------------------------- the server, started ---------------------- *)

\* No ledger state: the greenlet is not inside a ledger operation.
NoBook == [game_no |-> 0]

\* The server as it starts: an empty queue, zeroed metrics, the worker
\* about to dequeue, no command being handled, nothing emitted.
ServerStart ==
    /\ AUDIO_Q = <<>>
    /\ METRICS = METRICS_START
    /\ worker = [pc |-> "get", chunk |-> NoData, did |-> "start",
                 last_emit |-> 0, started_from |-> NoBook]
    /\ command = [pc |-> "idle", cmd |-> "<None>", started_from |-> NoBook]
    /\ running = "hub"
    /\ sink = NothingEmitted
    /\ tally = [arrived |-> 0, admitted |-> 0, evicted |-> 0, deepest |-> 0]

(* ------------------------------ actions ------------------------------- *)

\* The operation that ran last and its arguments.
Call(op, x, y, result) == [op |-> op, x |-> x, y |-> y, result |-> result]

\* No text has been parsed yet.
NotParsed == parsed_as("<not parsed>", None, None, "<None>")

StartTime == CHOOSE t \in Instants : \A u \in Instants : t <= u

\* BOOK = StatBook(ROSTER)
Init ==
    /\ BOOK = reset
    /\ now = StartTime
    /\ last = Call("init", None, None, "<None>")
    /\ n_ops = 0
    /\ text = <<>>
    /\ parsed = NotParsed
    /\ ServerStart

\* The wall clock advances between operations.
Tick ==
    /\ \E t \in Instants : t > now /\ now' = t
    /\ UNCHANGED <<BOOK, last, n_ops>>
    /\ UNCHANGED not_ledger

\* One more ledger operation is issued.
Issue(op, x, y, result) ==
    /\ n_ops < MaxOps
    /\ n_ops' = n_ops + 1
    /\ last' = Call(op, x, y, result)
    /\ UNCHANGED now
    /\ UNCHANGED not_ledger

NewGame ==
    /\ Issue("new_game", None, None, "<None>")
    /\ BOOK' = new_game(BOOK)

NewPoint ==
    /\ Issue("new_point", None, None, "<None>")
    /\ BOOK' = new_point(BOOK, TRUE, "manual")

\* undo, and the status message that its caller emits for the value returned.
Undo ==
    /\ BOOK' = undo(BOOK).book
    /\ last' = Call("undo", None, None,
                    IF undo(BOOK).ret THEN "Undid last action"
                    ELSE "Nothing to undo")
    /\ UNCHANGED <<now, n_ops>>
    /\ UNCHANGED not_ledger

RecordD(x) ==
    /\ Issue("record_d", x, None, "<None>")
    /\ BOOK' = record_d(BOOK, x)

RecordDrop(x) ==
    /\ Issue("record_drop", x, None, "<None>")
    /\ BOOK' = record_drop(BOOK, x)

RecordScore(y) ==
    /\ Issue("record_score", None, y, "<None>")
    /\ BOOK' = record_score(BOOK, y)

RecordAssist(x) ==
    /\ Issue("record_assist", x, None, "<None>")
    /\ BOOK' = record_assist(BOOK, x)

RecordAssistTo(x, y) ==
    /\ Issue("record_assist_to", x, y, "<None>")
    /\ BOOK' = record_assist_to(BOOK, x, y)

RecordThrow(x, y, r) ==
    /\ Issue("record_throw", x, y, r)
    /\ BOOK' = record_throw(BOOK, x, y, r)

RecordHuck(x, y, r) ==
    /\ Issue("record_huck", x, y, r)
    /\ BOOK' = record_huck(BOOK, x, y, r)

Next ==
    \/ Tick
    \/ NewGame
    \/ NewPoint
    \/ Undo
    \/ \E x \in DNames : RecordD(x)
    \/ \E x \in DropNames : RecordDrop(x)
    \/ \E y \in ScoreNames : RecordScore(y)
    \/ \E x \in AssistNames : RecordAssist(x)
    \/ \E p \in AssistToPairs : RecordAssistTo(p[1], p[2])
    \/ \E t \in Throws : RecordThrow(t[1], t[2], t[3])
    \/ \E t \in Hucks : RecordHuck(t[1], t[2], t[3])

Spec == Init /\ [][Next]_vars

(* ------------------------- the parser, applied ------------------------ *)

\* The words that the texts are made of: the roster names (one written
\* with a capital), words of the patterns, a filler, and the empty piece
\* (two blanks in a row, or a blank at an end of the text).
PlayerWords ==
    { Jake, <<"M", "a", "r", "i", "o">>, <<>>,
      Word.to, Word.d, Word.assist, Word.threw, Word.huck, Word.turn,
      Word.undo, Word.uh }

ControlWords ==
    { Jake, Word.d, <<>>, Word.uh,
      Word.new, Word.game, Word.undo, Word.go, Word.back }

\* The texts: at most MaxWords pieces of either vocabulary.
Texts ==
    { join(ws) :
        ws \in UNION { [1..k -> PlayerWords] \cup [1..k -> ControlWords] :
                         k \in 0..MaxWords } }

\* name_regex = build_name_regex(BOOK.roster)
name_regex == build_name_regex(roster)

\* The grammar given to the recognizer: build_grammar_phrases(BOOK.roster)
grammar == build_grammar_phrases(roster)

InitParser ==
    /\ BOOK = reset
    /\ now = StartTime
    /\ last = Call("init", None, None, "<None>")
    /\ n_ops = 0
    /\ text \in Texts
    /\ parsed = NotParsed
    /\ ServerStart

\* action, payload = parse_command(text, name_regex)
Parse ==
    /\ parsed = NotParsed
    /\ parsed' = parse_command(text, name_regex)
    /\ UNCHANGED <<BOOK, now, last, n_ops, text>>
    /\ UNCHANGED <<AUDIO_Q, METRICS, worker, command, running, sink, tally>>

NextParser == Parse

SpecParser == InitParser /\ [][NextParser]_vars

(* ----------------------------- the server ----------------------------- *)

\* The greenlets run one at a time and hand over only where they wait:
\* running is the greenlet that holds the interpreter, "hub" when every
\* greenlet waits.  A greenlet whose position is one of its yield points
\* waits for the hub; anywhere else it is the one that runs.

\* The yield points of audio_worker_loop: AUDIO_Q.get(timeout=0.5) and the
\* eventlet.sleep(0) before every continue ("get"), socketio.emit("final")
\* before the text is parsed ("parse"), socketio.emit("status") after an
\* undo ("status").
worker_yields_inside_operation == {"get", "parse", "applying", "status"}

worker_yields == {"get", "parse", "status"}

\* The yield points of on_command: before the handler starts ("idle"), and
\* socketio.emit("status") after undo and export ("status").
command_yields == {"idle", "status"}

Scheduled(g, pc, yields) ==
    IF pc \in yields THEN running = "hub" ELSE running = g

Handover(g, pc, yields) ==
    running' = IF pc \in yields THEN "hub" ELSE g

\* What the recognizer may return as the text of an utterance: nothing, a
\* word that is no command, a player phrase, a control phrase.
Utterances == { <<>>, Word.huck, join(<<Jake, Word.d>>), Word.undo }

\* rec.Result() that cannot be decoded
Undecodable == <<"<undecodable>">>

\* The commands that a client sends.
Commands == {"new_game", "new_point", "undo", "export"}

\* Where the loop goes on after a failure of rec.AcceptWaveform (line 697:
\* eventlet.sleep(0); continue).
after_feed_failure_stops == "stopped"

after_feed_failure == "get"

\* on_audio_chunk(data).  tally counts what happened to the frames: how many
\* arrived, were admitted to the queue, were evicted from it, and the
\* deepest the queue has been.
OnAudioChunk(data) ==
    /\ running = "hub"
    /\ data = NoData \/ (data = tally.arrived + 1 /\ data <= MaxFrames)
    /\ LET r == on_audio_chunk(AUDIO_Q, METRICS, data)
           old == { AUDIO_Q[i] : i \in 1..Len(AUDIO_Q) }
           new == { r.q[i] : i \in 1..Len(r.q) }
       IN  /\ AUDIO_Q' = r.q
           /\ METRICS' = r.m
           /\ tally' = IF data = NoData THEN tally
                       ELSE [arrived |-> data,
                             admitted |-> tally.admitted
                                            + Cardinality(new \ old),
                             evicted |-> tally.evicted
                                           + Cardinality(old \ new),
                             deepest |-> IF Len(r.q) > tally.deepest
                                         THEN Len(r.q) ELSE tally.deepest]
    /\ UNCHANGED <<BOOK, now, last, n_ops, text, parsed,
                   worker, command, running, sink>>

\* on_command(data), up to the first thing its ledger operation does.
OnCommand(cmd) ==
    /\ command.pc = "idle"
    /\ running = "hub"
    /\ n_ops < MaxCommands
    /\ n_ops' = n_ops + 1
    /\ IF cmd = "export"
       THEN /\ command' = [command EXCEPT !.pc = "status", !.cmd = cmd]
            /\ UNCHANGED BOOK
       ELSE /\ BOOK' = begin(cmd, BOOK)
            /\ command' = [pc |-> "updating", cmd |-> cmd,
                           started_from |-> BOOK]
    /\ Handover("command", command'.pc, command_yields)
    /\ UNCHANGED <<now, last, text, parsed, AUDIO_Q, METRICS,
                   worker, sink, tally>>

\* The rest of the ledger operation of the command.
CommandFinish ==
    /\ command.pc = "updating"
    /\ running = "command"
    /\ BOOK' = apply_action(parsed_as(command.cmd, None, None, "<None>"),
                            command.started_from)
    /\ command' = [command EXCEPT
                     !.pc = IF command.cmd = "undo" THEN "status"
                            ELSE "broadcast",
                     !.started_from = NoBook]
    /\ Handover("command", command'.pc, command_yields)
    /\ UNCHANGED <<now, last, n_ops, text, parsed, AUDIO_Q, METRICS,
                   worker, sink, tally>>

\* socketio.emit("status", ...) of on_command has returned.
CommandStatus ==
    /\ command.pc = "status"
    /\ running = "hub"
    /\ command' = [command EXCEPT !.pc = "broadcast"]
    /\ running' = "command"
    /\ UNCHANGED <<BOOK, now, last, n_ops, text, parsed, AUDIO_Q, METRICS,
                   worker, sink, tally>>

\* broadcast_stats() at the end of on_command.
CommandBroadcast ==
    /\ command.pc = "broadcast"
    /\ running = "command"
    /\ sink' = broadcast_stats(BOOK)
    /\ command' = [command EXCEPT !.pc = "idle"]
    /\ running' = "hub"
    /\ UNCHANGED <<BOOK, now, last, n_ops, text, parsed, AUDIO_Q, METRICS,
                   worker, tally>>

\* chunk = AUDIO_Q.get(timeout=0.5) returns a frame.
WorkerGet ==
    /\ worker.pc = "get"
    /\ Scheduled("worker", worker.pc, worker_yields)
    /\ AUDIO_Q # <<>>
    /\ AUDIO_Q' = Tail(AUDIO_Q)
    /\ worker' = [worker EXCEPT !.pc = "feed", !.chunk = Head(AUDIO_Q)]
    /\ Handover("worker", worker'.pc, worker_yields)
    /\ UNCHANGED <<BOOK, now, last, n_ops, text, parsed, METRICS,
                   command, sink, tally>>

\* AUDIO_Q.get(timeout=0.5) raises Empty: eventlet.sleep(0); continue.
WorkerTimeout ==
    /\ worker.pc = "get"
    /\ Scheduled("worker", worker.pc, worker_yields)
    /\ AUDIO_Q = <<>>
    /\ worker' = [worker EXCEPT !.did = "timeout"]
    /\ Handover("worker", worker'.pc, worker_yields)
    /\ UNCHANGED <<BOOK, now, last, n_ops, text, parsed, AUDIO_Q, METRICS,
                   command, sink, tally>>

\* rec.AcceptWaveform(chunk): it raises, or the utterance goes on (a
\* partial transcript), or the utterance is complete.
WorkerFeed(outcome) ==
    /\ worker.pc = "feed"
    /\ Scheduled("worker", worker.pc, worker_yields)
    /\ CASE outcome = "raises" ->
              /\ worker' = [worker EXCEPT !.pc = after_feed_failure,
                                          !.chunk = NoData,
                                          !.did = "feed_failed"]
              /\ UNCHANGED METRICS
         [] outcome = "partial" ->
              /\ worker' = [worker EXCEPT !.pc = "get", !.chunk = NoData,
                                          !.did = "partial"]
              /\ METRICS' = [METRICS EXCEPT !.chunks_processed = @ + 1]
         [] outcome = "final" ->
              /\ worker' = [worker EXCEPT !.pc = "result", !.chunk = NoData]
              /\ METRICS' = [METRICS EXCEPT !.chunks_processed = @ + 1]
    /\ Handover("worker", worker'.pc, worker_yields)
    /\ UNCHANGED <<BOOK, now, last, n_ops, text, parsed, AUDIO_Q,
                   command, sink, tally>>

\* res = json.loads(rec.Result()); text = (res.get("text") or "").strip()
WorkerResult(res) ==
    /\ worker.pc = "result"
    /\ Scheduled("worker", worker.pc, worker_yields)
    /\ IF res = Undecodable
       THEN /\ worker' = [worker EXCEPT !.pc = "get",
                                        !.did = "result_failed"]
            /\ UNCHANGED <<text, METRICS>>
       ELSE /\ text' = strip(res)
            /\ METRICS' = [METRICS EXCEPT !.last_result_ts = now]
            /\ worker' = IF strip(res) = <<>>
                         THEN [worker EXCEPT !.pc = "get",
                                             !.did = "empty_text"]
                         ELSE [worker EXCEPT !.pc = "parse"]
    /\ Handover("worker", worker'.pc, worker_yields)
    /\ UNCHANGED <<BOOK, now, last, n_ops, parsed, AUDIO_Q,
                   command, sink, tally>>

\* Lines 730-738 for every text that the recognizer may return:
\* parse_command(text, name_regex) with the default outcome filled in.
PARSED_UTTERANCES ==
    { [text |-> strip(u),
       parsed |-> with_default_outcome(parse_command(strip(u), name_regex))] :
      u \in Utterances }

parsed_utterance(t) == (CHOOSE u \in PARSED_UTTERANCES : u.text = t).parsed

\* Where the loop goes on after parsing: lines 731-732, 747-750, 753.
after_parse(p) ==
    IF p.action = "<None>"
    THEN [worker EXCEPT !.pc = "get", !.did = "no_match"]
    ELSE IF missing(p) # {}
    THEN [worker EXCEPT !.pc = "get", !.did = "missing"]
    ELSE [worker EXCEPT !.pc = "apply"]

\* parse_command, the default outcome and the required fields.
WorkerParse ==
    /\ worker.pc = "parse"
    /\ Scheduled("worker", worker.pc, worker_yields)
    /\ parsed' = parsed_utterance(text)
    /\ worker' = after_parse(parsed')
    /\ Handover("worker", worker'.pc, worker_yields)
    /\ UNCHANGED <<BOOK, now, last, n_ops, text, AUDIO_Q, METRICS,
                   command, sink, tally>>

\* The ledger operation of the action starts.
WorkerBegin ==
    /\ worker.pc = "apply"
    /\ Scheduled("worker", worker.pc, worker_yields)
    /\ BOOK' = begin(parsed.action, BOOK)
    /\ worker' = [worker EXCEPT !.pc = "applying", !.started_from = BOOK]
    /\ Handover("worker", worker'.pc, worker_yields)
    /\ UNCHANGED <<now, last, n_ops, text, parsed, AUDIO_Q, METRICS,
                   command, sink, tally>>

\* The rest of the ledger operation; for every action but undo,
\* commands_applied follows at once.
WorkerFinish ==
    /\ worker.pc = "applying"
    /\ Scheduled("worker", worker.pc, worker_yields)
    /\ BOOK' = apply_action(parsed, worker.started_from)
    /\ IF parsed.action = "undo"
       THEN /\ worker' = [worker EXCEPT !.pc = "status",
                                        !.started_from = NoBook]
            /\ UNCHANGED METRICS
       ELSE /\ worker' = [worker EXCEPT !.pc = "refresh",
                                        !.started_from = NoBook]
            /\ METRICS' = [METRICS EXCEPT !.commands_applied = @ + 1]
    /\ Handover("worker", worker'.pc, worker_yields)
    /\ UNCHANGED <<now, last, n_ops, text, parsed, AUDIO_Q,
                   command, sink, tally>>

\* socketio.emit("status", ...) after undo, inside the try of line 753: if
\* it raises, the handler of line 780 goes on with the next frame.
WorkerStatus(raises) ==
    /\ worker.pc = "status"
    /\ Scheduled("worker", worker.pc, worker_yields)
    /\ IF raises
       THEN /\ worker' = [worker EXCEPT !.pc = "get", !.did = "apply_failed"]
            /\ UNCHANGED METRICS
       ELSE /\ worker' = [worker EXCEPT !.pc = "refresh"]
            /\ METRICS' = [METRICS EXCEPT !.commands_applied = @ + 1]
    /\ Handover("worker", worker'.pc, worker_yields)
    /\ UNCHANGED <<BOOK, now, last, n_ops, text, parsed, AUDIO_Q,
                   command, sink, tally>>

\* Lines 785-790.  The clock counts whole seconds and UI_REFRESH is 0.05 s:
\* a second or more after last_emit the statistics are broadcast; within
\* the same second they are or are not.
WorkerRefresh(emit) ==
    /\ worker.pc = "refresh"
    /\ Scheduled("worker", worker.pc, worker_yields)
    /\ now - worker.last_emit >= 1 => emit
    /\ IF emit
       THEN /\ sink' = broadcast_stats(BOOK)
            /\ worker' = [worker EXCEPT !.pc = "get", !.did = "applied",
                                        !.last_emit = now]
       ELSE /\ worker' = [worker EXCEPT !.pc = "get", !.did = "applied"]
            /\ UNCHANGED sink
    /\ Handover("worker", worker'.pc, worker_yields)
    /\ UNCHANGED <<BOOK, now, last, n_ops, text, parsed, AUDIO_Q, METRICS,
                   command, tally>>

\* One step of audio_worker_loop
Worker ==
    \/ WorkerGet
    \/ WorkerTimeout
    \/ \E outcome \in {"raises", "partial", "final"} : WorkerFeed(outcome)
    \/ \E res \in Utterances \cup {Undecodable} : WorkerResult(res)
    \/ WorkerParse
    \/ WorkerBegin
    \/ WorkerFinish
    \/ \E raises \in BOOLEAN : WorkerStatus(raises)
    \/ \E emit \in BOOLEAN : WorkerRefresh(emit)

\* One step of a running on_command
Command ==
    \/ CommandFinish
    \/ CommandStatus
    \/ CommandBroadcast

NextServer ==
    \/ \E data \in 0..MaxFrames : OnAudioChunk(data)
    \/ \E cmd \in Commands : OnCommand(cmd)
    \/ CommandFinish
    \/ CommandStatus
    \/ CommandBroadcast
    \/ WorkerGet
    \/ WorkerTimeout
    \/ \E outcome \in {"raises", "partial", "final"} : WorkerFeed(outcome)
    \/ \E res \in Utterances \cup {Undecodable} : WorkerResult(res)
    \/ WorkerParse
    \/ WorkerBegin
    \/ WorkerFinish
    \/ \E raises \in BOOLEAN : WorkerStatus(raises)
    \/ \E emit \in BOOLEAN : WorkerRefresh(emit)

SpecServer == Init /\ [][NextServer]_vars

\* main() starts audio_worker_loop as a background task of the hub, which
\* resumes every greenlet that is ready: a step of the worker, or of a
\* command being handled, that stays possible is taken.
FairSpecServer ==
    /\ SpecServer
    /\ WF_vars(Worker)
    /\ WF_vars(Command)

(* ------------------------- a point played out ------------------------- *)

\* The ledger operations of one point between two players: the point is
\* started by hand, jake throws to mario, and the assist is called, bare
\* or with the receiver; any of them may be undone.  One operation more
\* than MaxOps, with fewer arguments to choose from.
IssueInPlay(op, x, y, result) ==
    /\ n_ops < MaxPlayOps
    /\ n_ops' = n_ops + 1
    /\ last' = Call(op, x, y, result)
    /\ UNCHANGED now
    /\ UNCHANGED not_ledger

PlayNewPoint ==
    /\ IssueInPlay("new_point", None, None, "<None>")
    /\ BOOK' = new_point(BOOK, TRUE, "manual")

PlayThrow ==
    /\ IssueInPlay("record_throw", Jake, MarioRaw, "completed")
    /\ BOOK' = record_throw(BOOK, Jake, MarioRaw, "completed")

PlayAssist ==
    /\ IssueInPlay("record_assist", Jake, None, "<None>")
    /\ BOOK' = record_assist(BOOK, Jake)

PlayAssistTo ==
    /\ IssueInPlay("record_assist_to", Jake, MarioRaw, "<None>")
    /\ BOOK' = record_assist_to(BOOK, Jake, MarioRaw)

NextPlay ==
    \/ Tick
    \/ Undo
    \/ PlayNewPoint
    \/ PlayThrow
    \/ PlayAssist
    \/ PlayAssistTo

SpecPlay == Init /\ [][NextPlay]_vars

(* --------------------------- claim helpers ---------------------------- *)

\* Every name an operation may be given.
AllNames == {Jake, MarioRaw, Eli, Blank}

\* The ledger of a and of b agree: game and point number, every player's
\* counters, and the event log (length and contents).
SameLedger(a, b) ==
    /\ a.game_no = b.game_no
    /\ a.point_no = b.point_no
    /\ a.players = b.players
    /\ a.events = b.events

\* No counter differs between a and b (a player that b adds has zeros).
NoCounterChange(a, b) ==
    \A n \in DOMAIN b.players :
        b.players[n] = IF n \in DOMAIN a.players THEN a.players[n] ELSE _blank

\* The events that an operation appended, taking a to b.
Appended(a, b) == SubSeq(b.events, Len(a.events) + 1, Len(b.events))

\* The types of a sequence of events.
Types(evs) == [i \in 1..Len(evs) |-> evs[i].type]

\* This step is a call of the ledger operation op.
Step(op) == last'.op = op /\ n_ops' = n_ops + 1

\* This step is a call of record_assist or record_assist_to with names that
\* are not blank.
AssistCall ==
    /\ Step("record_assist") \/ Step("record_assist_to")
    /\ norm(last'.x) # <<>>
    /\ last'.op = "record_assist_to" => norm(last'.y) # <<>>

\* The last operation was such a call (only the clock has moved since).
AssistWasLast ==
    /\ last.op \in {"record_assist", "record_assist_to"}
    /\ norm(last.x) # <<>>
    /\ last.op = "record_assist_to" => norm(last.y) # <<>>

Newest(I) == CHOOSE k \in I : \A j \in I : j <= k

\* The places in the log of b of the Assist events of player n.
AssistIdx(b, n) ==
    { i \in 1..Len(b.events) :
        b.events[i].type = "assist" /\ b.events[i].player = n }

\* The newest Assist event of player n.
LastAssist(b, n) == b.events[Newest(AssistIdx(b, n))]

\* ev is a completed throw or huck of thrower n.
IsCompletedBy(ev, n) ==
    /\ ev.type \in {"throw", "huck"}
    /\ ev.outcome = "completed"
    /\ ev.thrower = n

\* The places in the log of b of the completed throws and hucks of n ...
CompletedAnywhere(b, n) ==
    { i \in 1..Len(b.events) : IsCompletedBy(b.events[i], n) }

\* ... and of those recorded in the current game and point.
CompletedHere(b, n) ==
    { i \in CompletedAnywhere(b, n) :
        b.events[i].game = b.game_no /\ b.events[i].point = b.point_no }

\* ev is at most the dedupe window old.
InWindow(ev) == now - ev.ts_epoch <= DEDUPE_WINDOW_SEC

\* The counters of player n in b, zero when b has no such player.
Counters(b, n) == IF n \in DOMAIN b.players THEN b.players[n] ELSE _blank

\* The newest snapshot of the history of b.
Top(b) == b.history[Len(b.history)]

(* -------------------------------- C1 ---------------------------------- *)

\* Undo right after an operation restores the ledger the operation started
\* from.
UndoRestores(after) == SameLedger(undo(after).book, BOOK)

UndoInverseOfRecords ==
    /\ UndoRestores(new_point(BOOK, TRUE, "manual"))
    /\ \A x \in AllNames :
        /\ UndoRestores(record_d(BOOK, x))
        /\ UndoRestores(record_drop(BOOK, x))
        /\ UndoRestores(record_score(BOOK, x))
        /\ UndoRestores(record_assist(BOOK, x))
    /\ \A x \in AllNames, y \in AllNames :
        /\ UndoRestores(record_assist_to(BOOK, x, y))
        /\ \A r \in Outcomes :
            /\ UndoRestores(record_throw(BOOK, x, y, r))
            /\ UndoRestores(record_huck(BOOK, x, y, r))

\* C1: undo is an exact inverse of every mutating ledger operation: in every
\* reachable state S, for O among new_game, new_point(manual), record_d,
\* record_drop, record_score, record_throw, record_huck, record_assist and
\* record_assist_to, undo after O gives back the game_no, point_no, player
\* counters and event log of S.
C1_UndoIsExactInverse ==
    /\ UndoRestores(new_game(BOOK))
    /\ UndoInverseOfRecords

(* -------------------------------- C2 ---------------------------------- *)

\* C2: once record_assist(x) or record_assist_to(x, y) has appended an
\* Assist event for x, a record_throw or record_huck by x issued at most
\* 4.0 s later, with no other operation in between, changes no player
\* counter and appends no event.
C2_ThrowAfterAssistSuppressed ==
    [][ ( /\ Step("record_throw") \/ Step("record_huck")
          /\ AssistWasLast
          /\ norm(last'.x) = norm(last.x)
          /\ InWindow(LastAssist(BOOK, norm(last.x))) )
        => ( /\ NoCounterChange(BOOK, BOOK')
             /\ BOOK'.events = BOOK.events ) ]_vars

(* -------------------------------- C3 ---------------------------------- *)

\* What the dedup branch of record_assist does for thrower x and receiver y.
DedupPost(x, y) ==
    LET A == Appended(BOOK, BOOK')
    IN  /\ BOOK'.players[x].assists = BOOK.players[x].assists + 1
        /\ BOOK'.players[y].scores = BOOK.players[y].scores + 1
        /\ BOOK'.players[x].throws = BOOK.players[x].throws
        /\ BOOK'.players[x].completions = BOOK.players[x].completions
        /\ BOOK'.players[x].hucks = BOOK.players[x].hucks
        /\ BOOK'.players[x].huck_completions
             = BOOK.players[x].huck_completions
        /\ Len(A) >= 2
        /\ A[1].type = "assist" /\ A[1].player = x
        /\ A[2].type = "score" /\ A[2].player = y
        /\ \A k \in 1..Len(A) : A[k].type \notin {"throw", "huck"}

\* C3 as claimed: if some completed throw/huck x -> y of the current game
\* and point is at most 4.0 s old, record_assist(x) adds one assist to x and
\* one score to y, leaves the throws, completions, hucks and
\* huck_completions of x alone, and appends Assist(x) and Score(y) but no
\* Throw/Huck event.
C3_DedupAfterAnyRecentThrow ==
    [][ Step("record_assist") =>
          \A i \in CompletedHere(BOOK, norm(last'.x)) :
              InWindow(BOOK.events[i])
              => DedupPost(norm(last'.x), BOOK.events[i].receiver) ]_vars

\* C3 amended: the same, when x -> y is the newest completed throw/huck of x
\* in the current game and point.
C3_DedupAfterNewestThrow ==
    [][ Step("record_assist") =>
          LET x == norm(last'.x)
              I == CompletedHere(BOOK, x)
          IN  (I # {} /\ InWindow(BOOK.events[Newest(I)]))
              => DedupPost(x, BOOK.events[Newest(I)].receiver) ]_vars

\* record_assist has run last and took the dedup branch: its Assist event
\* is followed by the inferred Score event.
C3_Witness ==
    /\ last.op = "record_assist"
    /\ norm(last.x) # <<>>
    /\ LET i == Newest(AssistIdx(BOOK, norm(last.x)))
       IN  /\ i < Len(BOOK.events)
           /\ BOOK.events[i + 1].type = "score"

(* -------------------------------- C4 ---------------------------------- *)

\* This step appended no NewPoint event.
NoNewPointAppended ==
    \A k \in 1..Len(Appended(BOOK, BOOK')) :
        Appended(BOOK, BOOK')[k].type # "new_point"

\* This step advanced the point: point_no grew by one and the step's last
\* event is the NewPoint event of the new point, its only one.
PointAdvanced ==
    LET A == Appended(BOOK, BOOK')
    IN  /\ BOOK'.point_no = BOOK.point_no + 1
        /\ Len(A) >= 1
        /\ A[Len(A)].type = "new_point"
        /\ A[Len(A)].game = BOOK.game_no
        /\ A[Len(A)].point = BOOK.point_no + 1
        /\ \A k \in 1..(Len(A) - 1) : A[k].type # "new_point"

\* This step left the point as it was.
PointKept ==
    /\ BOOK'.point_no = BOOK.point_no
    /\ NoNewPointAppended
    /\ BOOK'.last_point_change = BOOK.last_point_change

\* C4 as claimed: record_assist(x) and record_assist_to(x, y) with names
\* that are not blank advance point_no by exactly 1 and append a NewPoint
\* event, in every reachable state.
C4_AssistAlwaysEndsPoint == [][ AssistCall => PointAdvanced ]_vars

\* C4 amended: they do so unless the point changed less than 1.0 s ago
\* (_last_point_change, set by new_game and by every new_point that took
\* effect, and not reset by undo); then point_no stays and no NewPoint
\* event is appended.
C4_AssistEndsPointUnlessThrottled ==
    [][ AssistCall =>
          IF now - BOOK.last_point_change < AUTO_THROTTLE_SEC
          THEN PointKept
          ELSE PointAdvanced /\ BOOK'.last_point_change = now ]_vars

\* An assist has run last and its auto new point was throttled: the log
\* ends with the assist's own events.
C4_Witness ==
    /\ AssistWasLast
    /\ BOOK.events[Len(BOOK.events)].type \in {"assist", "score"}
    /\ BOOK.events[Len(BOOK.events)].point = BOOK.point_no

(* -------------------------------- C5 ---------------------------------- *)

\* This step is an assist call, the operation before it was one too, and
\* they were issued less than 1.0 s apart: two new_point(auto) calls.
TwoAutoCallsWithinThrottle ==
    /\ AssistCall
    /\ AssistWasLast
    /\ now - LastAssist(BOOK, norm(last.x)).ts_epoch < AUTO_THROTTLE_SEC

\* The point number when the first of the two calls started.
PointBeforeFirst == LastAssist(BOOK, norm(last.x)).point

ManualNewPointAdvances ==
    Step("new_point") =>
        /\ BOOK'.point_no = BOOK.point_no + 1
        /\ Types(Appended(BOOK, BOOK')) = <<"new_point">>
        /\ BOOK'.last_point_change = now

\* C5 as claimed: two new_point(auto) calls less than 1.0 s apart advance
\* point_no by exactly 1 in total, the second being a no-op (point_no, the
\* event log and the last-point-change time stay); a manual new_point is
\* never throttled and always advances point_no by 1.
C5_TwoAutoCallsAdvanceOnce ==
    [][ /\ TwoAutoCallsWithinThrottle =>
              (BOOK'.point_no = PointBeforeFirst + 1 /\ PointKept)
        /\ ManualNewPointAdvances ]_vars

\* C5 amended: an auto call less than 1.0 s after the last point change is a
\* no-op; so two auto calls less than 1.0 s apart advance point_no by at
\* most 1 in total, and the second is a no-op whenever the first advanced.
\* A manual new_point is never throttled and always advances point_no by 1.
C5_AutoCallThrottled ==
    [][ /\ (AssistCall
             /\ now - BOOK.last_point_change < AUTO_THROTTLE_SEC)
              => PointKept
        /\ TwoAutoCallsWithinThrottle =>
              /\ BOOK'.point_no <= PointBeforeFirst + 1
              /\ BOOK.point_no = PointBeforeFirst + 1 => PointKept
        /\ ManualNewPointAdvances ]_vars

\* Two assists were issued less than 1.0 s apart, the first advanced the
\* point and the second, which ran last, did not.
C5_Witness ==
    /\ AssistWasLast
    /\ \E i \in 1..Len(BOOK.events), j \in 1..Len(BOOK.events) :
        /\ i < j
        /\ BOOK.events[i].type = "assist"
        /\ BOOK.events[j].type = "assist"
        /\ BOOK.events[j].ts_epoch - BOOK.events[i].ts_epoch
             < AUTO_THROTTLE_SEC
        /\ BOOK.events[j].point = BOOK.events[i].point + 1
        /\ BOOK.point_no = BOOK.events[j].point
        /\ \A k \in (j + 1)..Len(BOOK.events) :
              BOOK.events[k].type # "new_point"

(* -------------------------------- C6 ---------------------------------- *)

\* The resulting ledger states are identical (counters, events, game and
\* point number, history depth, time of the last point change).
SameResult(a, b) ==
    /\ SameLedger(a, b)
    /\ Len(a.history) = Len(b.history)
    /\ a.last_point_change = b.last_point_change

\* C6 as claimed: in any state where some completed throw/huck x -> y of
\* the current game and point is at most 4.0 s old, record_assist_to(x, y)
\* and record_assist(x) give identical ledger states.
C6_AssistToEqualsAssistAfterAnyThrow ==
    [][ /\ Step("record_assist_to") =>
              ( (\E i \in CompletedHere(BOOK, norm(last'.x)) :
                    /\ BOOK.events[i].receiver = norm(last'.y)
                    /\ InWindow(BOOK.events[i]))
                => SameResult(BOOK', record_assist(BOOK, last'.x)) )
        /\ Step("record_assist") =>
              \A y \in AllNames :
                 (\E i \in CompletedHere(BOOK, norm(last'.x)) :
                    /\ BOOK.events[i].receiver = norm(y)
                    /\ InWindow(BOOK.events[i]))
                 => SameResult(BOOK', record_assist_to(BOOK, last'.x, y))
      ]_vars

\* The newest completed throw/huck of x in the current game and point is at
\* most 4.0 s old and went to y.
NewestThrowWentTo(x, y) ==
    LET I == CompletedHere(BOOK, x)
    IN  /\ I # {}
        /\ InWindow(BOOK.events[Newest(I)])
        /\ BOOK.events[Newest(I)].receiver = y

\* C6 amended: the same, when x -> y is the newest completed throw/huck of x
\* in the current game and point.
C6_AssistToEqualsAssistAfterNewestThrow ==
    [][ /\ Step("record_assist_to") =>
              ( NewestThrowWentTo(norm(last'.x), norm(last'.y))
                => SameResult(BOOK', record_assist(BOOK, last'.x)) )
        /\ Step("record_assist") =>
              \A y \in AllNames :
                 NewestThrowWentTo(norm(last'.x), norm(y))
                 => SameResult(BOOK', record_assist_to(BOOK, last'.x, y))
      ]_vars

\* record_assist_to has run last and took the dedup branch: x has one more
\* assist and no more throws than in the snapshot taken when it started.
C6_Witness ==
    /\ last.op = "record_assist_to"
    /\ AssistWasLast
    /\ LET x == norm(last.x)
       IN  /\ BOOK.players[x].assists = Counters(Top(BOOK), x).assists + 1
           /\ BOOK.players[x].throws = Counters(Top(BOOK), x).throws
           /\ BOOK.players[norm(last.y)].scores
                = Counters(Top(BOOK), norm(last.y)).scores + 1

(* -------------------------------- C7 ---------------------------------- *)

\* The players after a full assist by x (with a score for y when y is
\* given): x has one more assist, throw and completion, y one more score,
\* nobody else changes.
FullAssistPlayers(x, y) ==
    [n \in DOMAIN BOOK.players \cup ({x, y} \ {None}) |->
        LET c0 == Counters(BOOK, n)
            c1 == IF n = x
                  THEN [c0 EXCEPT !.assists = @ + 1, !.throws = @ + 1,
                                  !.completions = @ + 1]
                  ELSE c0
        IN  IF n = y THEN [c1 EXCEPT !.scores = @ + 1] ELSE c1]

\* No completed throw/huck of x (to y when y is given) of the current game
\* and point is at most 4.0 s old.
NoRecentThrow(x, y) ==
    \A i \in CompletedHere(BOOK, x) :
        (y = None \/ BOOK.events[i].receiver = y) => ~InWindow(BOOK.events[i])

\* C7: record_assist(x) with no completed throw/huck of x in the current
\* game and point within the last 4.0 s adds exactly 1 to assists, throws
\* and completions of x, changes no other counter of any player, and
\* appends one Assist(x) event and no Score event; record_assist_to(x, y)
\* with no such throw x -> y does the same, adds 1 to the scores of y and
\* appends Score(y).
C7_FullAssist ==
    [][ /\ (Step("record_assist") /\ norm(last'.x) # <<>>
              /\ NoRecentThrow(norm(last'.x), None))
           => LET A == Appended(BOOK, BOOK')
              IN  /\ BOOK'.players = FullAssistPlayers(norm(last'.x), None)
                  /\ Types(A) \in {<<"assist">>, <<"assist", "new_point">>}
                  /\ A[1].player = norm(last'.x)
        /\ (AssistCall /\ last'.op = "record_assist_to"
              /\ NoRecentThrow(norm(last'.x), norm(last'.y)))
           => LET A == Appended(BOOK, BOOK')
              IN  /\ BOOK'.players
                       = FullAssistPlayers(norm(last'.x), norm(last'.y))
                  /\ Types(A) \in {<<"assist", "score">>,
                                   <<"assist", "score", "new_point">>}
                  /\ A[1].player = norm(last'.x)
                  /\ A[2].player = norm(last'.y)
      ]_vars

\* record_assist has run last on the full path, in a point that holds a
\* completed throw of x older than the window: x has one more throw than
\* in the snapshot, and the Assist event has no Score event after it.
C7_Witness ==
    /\ last.op = "record_assist"
    /\ AssistWasLast
    /\ LET x == norm(last.x)
           i == Newest(AssistIdx(BOOK, x))
       IN  /\ BOOK.players[x].throws = Counters(Top(BOOK), x).throws + 1
           /\ i = Len(BOOK.events) \/ BOOK.events[i + 1].type # "score"
           /\ \E k \in CompletedAnywhere(BOOK, x) :
                /\ BOOK.events[k].point = BOOK.events[i].point
                /\ BOOK.events[k].game = BOOK.events[i].game

(* -------------------------------- C8 ---------------------------------- *)

\* The completed throws/hucks of x (to y when y is given) in the log.
Matching(x, y) ==
    { i \in CompletedAnywhere(BOOK, x) :
        y = None \/ BOOK.events[i].receiver = y }

\* This assist step took the full path / the dedup branch for x.
TookFullPath(x) ==
    /\ BOOK'.players[x].throws = Counters(BOOK, x).throws + 1
    /\ BOOK'.players[x].completions = Counters(BOOK, x).completions + 1

TookDedup(x) ==
    /\ BOOK'.players[x].throws = Counters(BOOK, x).throws
    /\ BOOK'.players[x].completions = Counters(BOOK, x).completions
    /\ BOOK'.players[x].assists = Counters(BOOK, x).assists + 1

\* C8: an assist by x issued strictly more than 4.0 s after the most recent
\* completed throw/huck by x never dedups: it takes the full path and adds
\* a throw and a completion; one issued at most 4.0 s after it, in the same
\* game and point, always dedups.  (For record_assist_to(x, y) the throws
\* are those from x to y.)
C8_WindowBoundary ==
    [][ AssistCall =>
          LET x == norm(last'.x)
              y == IF last'.op = "record_assist_to" THEN norm(last'.y)
                   ELSE None
              I == Matching(x, y)
              ev == BOOK.events[Newest(I)]
          IN  I # {} =>
                /\ ~InWindow(ev) => TookFullPath(x)
                /\ (/\ InWindow(ev)
                    /\ ev.game = BOOK.game_no
                    /\ ev.point = BOOK.point_no) => TookDedup(x) ]_vars

\* An assist has run last exactly 4.0 s after the completed throw of x and
\* took the dedup branch.
C8_Witness ==
    /\ AssistWasLast
    /\ LET x == norm(last.x)
           a == LastAssist(BOOK, x)
       IN  /\ BOOK.players[x].throws = Counters(Top(BOOK), x).throws
           /\ \E k \in CompletedAnywhere(BOOK, x) :
                /\ a.ts_epoch - BOOK.events[k].ts_epoch = DEDUPE_WINDOW_SEC
                /\ BOOK.events[k].point = a.point

(* -------------------------------- C9 ---------------------------------- *)

\* This step is a call of a ledger operation other than undo.
OpStep == n_ops' = n_ops + 1

\* What a snapshot of b has to hold.
PreState(b) ==
    [game_no |-> b.game_no,
     point_no |-> b.point_no,
     events_len |-> Len(b.events),
     players |-> b.players]

\* The number of consecutive undos that succeed from b.
RECURSIVE SuccessfulUndos(_)
SuccessfulUndos(b) ==
    IF undo(b).ret THEN 1 + SuccessfulUndos(undo(b).book) ELSE 0

\* The history never holds more than the limit; a push on a full history
\* discards the oldest snapshot; once more operations than the limit have
\* run in a row, exactly that many consecutive undos succeed.
HistoryIsBounded ==
    /\ Len(BOOK'.history) <= HistoryMax
    /\ (OpStep /\ Len(BOOK.history) = HistoryMax)
       => BOOK'.history = Append(Tail(BOOK.history), PreState(BOOK))
    /\ (OpStep /\ Len(BOOK.history) = HistoryMax)
       => SuccessfulUndos(BOOK') = HistoryMax

\* The part of C9 that does not speak of what undo restores.
C9_HistoryIsBounded == [][HistoryIsBounded]_vars

\* C9: the history never holds more than the limit (1000 in the program,
\* HistoryMax here); a push beyond it discards the oldest snapshot, so after
\* more operations than the limit exactly that many consecutive undos
\* succeed, each restoring the state before the corresponding most recent
\* operation, and the next undo fails.
C9_BoundedHistory ==
    [][ /\ HistoryIsBounded
        /\ OpStep => ( /\ undo(BOOK').ret
                       /\ SameLedger(undo(BOOK').book, BOOK) ) ]_vars

(* -------------------------------- C10 --------------------------------- *)

\* The history h after one push of the snapshot s.
PushResult(h, s) ==
    IF Len(h) + 1 > HistoryMax THEN Append(Tail(h), s) ELSE Append(h, s)

\* C10: every mutating operation other than undo pushes exactly one
\* snapshot, taken before any mutation; the auto new_point of record_assist
\* and record_assist_to pushes none, so a single undo after an assist
\* reverts the counters, the appended events and the point advance together.
C10_SnapshotDiscipline ==
    [][ /\ OpStep
           => BOOK'.history = PushResult(BOOK.history, PreState(BOOK))
        /\ AssistCall
           => ( /\ undo(BOOK').ret
                /\ SameLedger(undo(BOOK').book, BOOK) ) ]_vars

\* An assist has run last and advanced the point; the newest snapshot is
\* the state it started from, one point earlier and at least two events
\* shorter.
C10_Witness ==
    /\ AssistWasLast
    /\ BOOK.events[Len(BOOK.events)].type = "new_point"
    /\ Top(BOOK).point_no = BOOK.point_no - 1
    /\ Top(BOOK).events_len <= Len(BOOK.events) - 2
    /\ BOOK.players[norm(last.x)].assists
         = Counters(Top(BOOK), norm(last.x)).assists + 1

(* -------------------------------- C11 --------------------------------- *)

\* What new_game does to the ledger: the next game, point 1, every player
\* kept with zeroed counters, a log that holds the NewGame event of the new
\* game and nothing else, and one more snapshot (of the state it started
\* from) on the history.
NewGameEffect ==
    /\ BOOK'.game_no = BOOK.game_no + 1
    /\ BOOK'.point_no = 1
    /\ DOMAIN BOOK'.players = DOMAIN BOOK.players
    /\ \A n \in DOMAIN BOOK'.players : BOOK'.players[n] = _blank
    /\ BOOK'.events = << [ts_epoch |-> now, type |-> "new_game",
                          game |-> BOOK.game_no + 1, point |-> 1] >>
    /\ BOOK'.history = PushResult(BOOK.history, PreState(BOOK))

\* The part of C11 that does not speak of undo.
C11_NewGameEffect == [][ Step("new_game") => NewGameEffect ]_vars

\* C11: new_game from any state sets game_no to game_no + 1 and point_no to
\* 1, zeroes every counter of every player and keeps the set of player
\* names, leaves a log of exactly one NewGame event tagged with the new
\* (game_no, 1), and does not clear the history (it pushes one snapshot), so
\* that new_game can itself be undone.
C11_NewGameUndoable ==
    [][ Step("new_game") =>
          /\ NewGameEffect
          /\ undo(BOOK').ret
          /\ SameLedger(undo(BOOK').book, BOOK) ]_vars

(* -------------------------------- C12 --------------------------------- *)

\* The places in the log of b of the Assist events of n in the current game
\* and point.
AssistHere(b, n) ==
    { i \in AssistIdx(b, n) :
        b.events[i].game = b.game_no /\ b.events[i].point = b.point_no }

\* A throw or huck of x is suppressed: the newest Assist event of x in the
\* current game and point is at most 4.0 s old.
Suppressed(x) ==
    /\ AssistHere(BOOK, x) # {}
    /\ InWindow(BOOK.events[Newest(AssistHere(BOOK, x))])

\* The players after a counted throw (huck) of x to y with outcome r.
ThrowPlayers(x, y, r, huck) ==
    [n \in DOMAIN BOOK.players \cup {x, y} |->
        LET c0 == Counters(BOOK, n)
            c1 == [c0 EXCEPT !.throws = @ + 1]
            c2 == IF r = "turn" THEN [c1 EXCEPT !.turnovers = @ + 1]
                  ELSE [c1 EXCEPT !.completions = @ + 1]
            c3 == IF huck THEN [c2 EXCEPT !.hucks = @ + 1] ELSE c2
            c4 == IF huck /\ r = "completed"
                  THEN [c3 EXCEPT !.huck_completions = @ + 1] ELSE c3
        IN  IF n = x THEN c4 ELSE c0]

\* C12: a record_throw(x, y, outcome) that is not suppressed adds 1 to the
\* throws of x and to exactly one of its turnovers (turn) and completions
\* (completed); record_huck does the same and adds 1 to the hucks of x, and
\* to its huck_completions when completed; no counter of y or of any other
\* player changes, and exactly one Throw/Huck event is appended, carrying
\* thrower, receiver, outcome and the current game and point.
C12_ThrowCounts ==
    [][ ( /\ Step("record_throw") \/ Step("record_huck")
          /\ norm(last'.x) # <<>> /\ norm(last'.y) # <<>>
          /\ ~Suppressed(norm(last'.x)) )
        => LET x == norm(last'.x)
               y == norm(last'.y)
               huck == last'.op = "record_huck"
           IN  /\ BOOK'.players = ThrowPlayers(x, y, last'.result, huck)
               /\ Appended(BOOK, BOOK')
                    = << [ts_epoch |-> now,
                          type |-> IF huck THEN "huck" ELSE "throw",
                          thrower |-> x, receiver |-> y,
                          outcome |-> last'.result,
                          game |-> BOOK.game_no, point |-> BOOK.point_no] >>
               /\ BOOK'.game_no = BOOK.game_no
               /\ BOOK'.point_no = BOOK.point_no ]_vars

\* A completed huck has run last and was counted: the log ends with its
\* event and the thrower has one more huck completion than in the snapshot.
C12_Witness ==
    /\ last.op = "record_huck"
    /\ last.result = "completed"
    /\ BOOK.events # <<>>
    /\ BOOK.events[Len(BOOK.events)].type = "huck"
    /\ BOOK.events[Len(BOOK.events)].ts_epoch = now
    /\ BOOK.players[norm(last.x)].huck_completions
         = Counters(Top(BOOK), norm(last.x)).huck_completions + 1

(* -------------------------------- C13 --------------------------------- *)

\* This step is a call of record_d or record_drop with a blank name.
BlankNameCall ==
    /\ Step("record_d") \/ Step("record_drop")
    /\ norm(last'.x) = <<>>

\* C13: record_d(x) and record_drop(x) with an empty or whitespace-only name
\* are no-ops: game_no, point_no, players, events and the history stay as
\* they are, so that a following undo reverts the operation before them.
C13_BlankNameIsNoOp ==
    [][ BlankNameCall =>
          /\ SameLedger(BOOK', BOOK)
          /\ BOOK'.history = BOOK.history
          /\ SameLedger(undo(BOOK').book, undo(BOOK).book) ]_vars

(* -------------------------------- C14 --------------------------------- *)

\* This step is a call of undo.
UndoStep == last'.op = "undo" /\ n_ops' = n_ops /\ now' = now

\* C14: undo on an empty history returns False (reported as the status
\* "Nothing to undo", no exception) and leaves game_no, point_no, players
\* and events as they are; undo on a history that is not empty returns True
\* and takes exactly one snapshot, the newest, off the history.
C14_UndoOnEmptyHistory ==
    [][ UndoStep =>
          IF BOOK.history = <<>>
          THEN /\ last'.result = "Nothing to undo"
               /\ SameLedger(BOOK', BOOK)
               /\ BOOK'.history = <<>>
          ELSE /\ last'.result = "Undid last action"
               /\ Len(BOOK'.history) = Len(BOOK.history) - 1
               /\ BOOK'.history
                    = SubSeq(BOOK.history, 1, Len(BOOK.history) - 1) ]_vars

\* undo has run last on an empty history and failed, in a ledger whose log
\* still holds an event (more operations had run than the history keeps).
C14_Witness ==
    /\ last.op = "undo"
    /\ last.result = "Nothing to undo"
    /\ BOOK.history = <<>>
    /\ BOOK.events # <<>>

(* -------------------------------- C19 --------------------------------- *)

\* The text has been parsed.
Parsed == parsed # NotParsed

\* The words of the text as parse_command reads them: lower case, fillers
\* left out.
Spoken == words(normalize(text))

\* What stands between the two names of a pair phrase.
PairMids ==
    { <<Word.to>> }
      \cup { <<v, Word.to>> :
               v \in {Word.threw, Word.throw, Word.passed,
                      Word.huck, Word.hucked, Word.hook,
                      Word.assist, Word.assists, Word.turn, Word.turnover} }

\* The words T are a pair phrase whose two names are equal.
EqualPair(T) ==
    \E n \in name_regex, mid \in PairMids :
        \/ T = n \o mid \o n
        \/ \E o \in OUTCOME_WORDS : T = n \o mid \o n \o <<o>>

\* The grammar holds no pair phrase with two equal names.
C19_GrammarHasNoEqualPair ==
    \A n \in name_regex, mid \in PairMids :
        /\ join(n \o mid \o n) \notin grammar
        /\ \A o \in OUTCOME_WORDS : join(n \o mid \o n \o <<o>>) \notin grammar

\* C19: pair phrases whose two names are equal are never produced by
\* build_grammar_phrases and never match in parse_command: for every roster
\* name n, "n to n", "n threw to n", "n huck to n" and "n assist to n" yield
\* no-match.
C19_EqualPairsNeverMatch ==
    /\ C19_GrammarHasNoEqualPair
    /\ (Parsed /\ EqualPair(Spoken)) => parsed = no_match

(* -------------------------------- C20 --------------------------------- *)

\* The words ph stand in T one after the other.
Occurs(ph, T) ==
    \E i \in 1..(Len(T) - Len(ph) + 1) : SubSeq(T, i, i + Len(ph) - 1) = ph

\* The control actions whose phrase the text contains: "new game" and
\* "new point" with any blanks between the two words, "undo", "revert", and
\* "go back", "scratch that", "cancel last" as written, with one blank.
ControlsIn ==
    LET P == normalize(text)
    IN  {"undo" : i \in { j \in 1..Len(Spoken) :
                            Spoken[j] \in {Word.undo, Word.revert} }}
          \cup {"undo" : ph \in { q \in { <<Word.go, Word.back>>,
                                          <<Word.scratch, Word.that>>,
                                          <<Word.cancel, Word.last>> } :
                                    Occurs(q, P) }}
          \cup {"new_game" : i \in { j \in {1} :
                                       Occurs(<<Word.new, Word.game>>, Spoken) }}
          \cup {"new_point" : i \in { j \in {1} :
                                        Occurs(<<Word.new, Word.point>>, Spoken) }}

\* A roster name stands in the text as a whole word.
NameIn == \E n \in name_regex : Occurs(n, Spoken)

TO_WORDS == {Word.to, Word.two}

\* The player patterns in the order of parse_command: the action of the
\* k-th one, and whether the words T have its shape for the names x and y.
PatternAction ==
    <<"d", "drop", "assist", "score", "assist_to",
      "throw", "throw", "throw", "huck">>

Shape(k, T, x, y) ==
    CASE k = 1 -> Len(T) > Len(x) /\ SubSeq(T, 1, Len(x) + 1) = x \o <<Word.d>>
      [] k = 2 -> \E w \in {Word.drop, Word.drops} : T = x \o <<w>>
      [] k = 3 -> \E w \in {Word.assist, Word.assists} : T = x \o <<w>>
      [] k = 4 -> \E w \in {Word.score, Word.scores} : T = y \o <<w>>
      [] k = 5 -> \E w \in {Word.assist, Word.assists} :
                     T = x \o <<w, Word.to>> \o y
      [] k = 6 -> \E o \in OUTCOME_WORDS, t \in TO_WORDS :
                     T = x \o <<o, t>> \o y
      [] k = 7 -> \E t \in TO_WORDS :
                     \/ T = x \o <<t>> \o y
                     \/ \E o \in OUTCOME_WORDS : T = x \o <<t>> \o y \o <<o>>
      [] k = 8 -> \E v \in {Word.threw, Word.throw, Word.passe, Word.passed},
                     t \in TO_WORDS :
                     \/ T = x \o <<v, t>> \o y
                     \/ \E o \in OUTCOME_WORDS :
                          T = x \o <<v, t>> \o y \o <<o>>
      [] k = 9 -> \E v \in {Word.huck, Word.hucked, Word.hook},
                     t \in { <<>>, <<Word.to>> } :
                     \/ T = x \o <<v>> \o t \o y
                     \/ \E o \in OUTCOME_WORDS :
                          T = x \o <<v>> \o t \o y \o <<o>>

\* The patterns that the words T match.
Matching_Patterns(T) ==
    { k \in 1..9 : \E x \in name_regex, y \in name_regex : Shape(k, T, x, y) }

\* parsed is a match of the k-th pattern: its action, and names that give
\* the words its shape.
IsMatchOf(k) ==
    /\ parsed.action = PatternAction[k]
    /\ \E x \in name_regex, y \in name_regex :
         /\ Shape(k, Spoken, x, y)
         /\ k # 4 => parsed.x = join(x)
         /\ k >= 4 => parsed.y = join(y)

\* C20: parse_command resolves ambiguity only by the fixed pattern order,
\* first match winning: a text with neither a control phrase nor a roster
\* name as a whole word is no-match; a text with a control phrase yields a
\* control action of a phrase it contains, also when it contains a valid
\* player phrase; otherwise the result is the match of the first pattern
\* that matches, in the order D, drop, assist, score, assist-to,
\* outcome-before-to, bare "X to Y", throw verb, huck verb, and no-match
\* when none does.
C20_FixedPatternOrder ==
    Parsed =>
      /\ (ControlsIn = {} /\ ~NameIn) => parsed = no_match
      /\ ControlsIn # {} =>
           /\ parsed.action \in ControlsIn
           /\ parsed.x = None /\ parsed.y = None
      /\ ControlsIn = {} =>
           LET F == Matching_Patterns(Spoken)
           IN  IF F = {} THEN parsed = no_match
               ELSE IsMatchOf(CHOOSE k \in F : \A j \in F : k <= j)

\* A text with a control phrase and a valid player phrase has been parsed
\* as the control action.
C20_Witness ==
    /\ Parsed
    /\ parsed.action = "undo"
    /\ 1 \in Matching_Patterns(Spoken)

(* -------------------------------- C15 --------------------------------- *)

\* A step of on_command that reads or changes the ledger: every step of it
\* but the return of its status emit.
CommandTouchesLedger == command' # command /\ command.pc # "status"

\* A step of the worker that reads or changes the ledger.
WorkerTouchesLedger ==
    worker' # worker /\ worker.pc \in {"apply", "applying", "refresh"}

\* C15: ledger operations are atomic with respect to each other.  While an
\* operation started by the worker is between its history push and its last
\* update, no step of on_command reads or changes the ledger and nothing is
\* broadcast, and the ledger is still what the push left; the same holds
\* for an operation started by on_command and the steps of the worker.
C15_LedgerOperationsAtomic ==
    [][ /\ worker.pc = "applying" =>
             /\ ~CommandTouchesLedger
             /\ sink' = sink
             /\ BOOK = begin(parsed.action, worker.started_from)
        /\ command.pc = "updating" =>
             /\ ~WorkerTouchesLedger
             /\ sink' = sink
             /\ BOOK = begin(command.cmd, command.started_from) ]_vars

\* The worker is in the middle of an operation that has pushed a snapshot,
\* while a command handler waits for its status emit to return.
C15_Witness ==
    /\ worker.pc = "applying"
    /\ BOOK # worker.started_from
    /\ command.pc = "status"

(* -------------------------------- C16 --------------------------------- *)

\* A frame has arrived (the step is on_audio_chunk with data).
FrameArrives == tally'.arrived # tally.arrived

\* C16: a frame that arrives at a full queue removes the oldest frame of
\* the queue and goes to the tail, the other frames keep their order, the
\* depth stays at most QUEUE_MAXSIZE and chunks_dropped grows by 1; a frame
\* that arrives at a queue that is not full is appended and drops nothing.
C16_QueueBackpressure ==
    [][ FrameArrives =>
          LET data == tally'.arrived
          IN  IF Len(AUDIO_Q) >= QUEUE_MAXSIZE
              THEN /\ AUDIO_Q' = Append(Tail(AUDIO_Q), data)
                   /\ Len(AUDIO_Q') <= QUEUE_MAXSIZE
                   /\ METRICS'.chunks_dropped = METRICS.chunks_dropped + 1
              ELSE /\ AUDIO_Q' = Append(AUDIO_Q, data)
                   /\ METRICS'.chunks_dropped = METRICS.chunks_dropped ]_vars

\* A frame has been evicted from a full queue that the worker had not
\* touched: the queue holds the newest QUEUE_MAXSIZE frames.
C16_Witness ==
    /\ tally.evicted = 1
    /\ METRICS.chunks_dropped = 1
    /\ Len(AUDIO_Q) = QUEUE_MAXSIZE
    /\ AUDIO_Q[Len(AUDIO_Q)] = tally.arrived
    /\ AUDIO_Q[1] = 2

(* -------------------------------- C17 --------------------------------- *)

\* C17: the counters of the queue are exact: chunks_enqueued is the number
\* of frames admitted to the queue (those admitted through the overflow
\* path too), chunks_dropped the number of frames evicted, q_max the
\* deepest the queue has been.
C17_CountersExact ==
    /\ METRICS.chunks_enqueued = tally.admitted
    /\ METRICS.chunks_dropped = tally.evicted
    /\ METRICS.q_max = tally.deepest

\* The two counters that the overflow path keeps exact.
C17_DroppedAndMaxExact ==
    /\ METRICS.chunks_dropped = tally.evicted
    /\ METRICS.q_max = tally.deepest

(* -------------------------------- C18 --------------------------------- *)

InQueue(f) == \E i \in 1..Len(AUDIO_Q) : AUDIO_Q[i] = f

\* What the loop did last was to give up a frame or an utterance.
Failures ==
    {"timeout", "feed_failed", "result_failed", "empty_text", "no_match",
     "missing", "apply_failed"}

\* C18: the worker never stops on a failure.  Wherever the loop is, it
\* returns to dequeuing, and every frame in the queue leaves the queue.
C18_WorkerKeepsDequeuing ==
    /\ (worker.pc # "get") ~> (worker.pc = "get")
    /\ \A f \in 1..MaxFrames : InQueue(f) ~> ~InQueue(f)

\* After a failure of the recognizer the loop has dequeued the next frame.
C18_Witness ==
    /\ worker.did = "feed_failed"
    /\ worker.pc = "feed"
    /\ worker.chunk > 1

(* -------------------------------- C21 --------------------------------- *)

\* The log only grows at its end, is cut at its end (undo) or is emptied
\* (new_game): the events before place k are the log as it was when the
\* event at place k was appended, and that event carries the time, game
\* and point of that moment.

\* The Assist events of the log that came with a Score event: the score is
\* the next event and of the same instant.
ScoredAssists(b) ==
    { k \in 1..Len(b.events) - 1 :
        /\ b.events[k].type = "assist"
        /\ b.events[k + 1].type = "score"
        /\ b.events[k + 1].ts_epoch = b.events[k].ts_epoch }

\* The completed throws and hucks from the player of the assist at place k
\* to the player of its score, recorded before it in its game and point.
CandidatesOf(b, k) ==
    { j \in 1..(k - 1) :
        /\ IsCompletedBy(b.events[j], b.events[k].player)
        /\ b.events[j].receiver = b.events[k + 1].player
        /\ b.events[j].game = b.events[k].game
        /\ b.events[j].point = b.events[k].point }

\* The assist at place k took the dedup branch against the throw at place
\* j: the newest candidate, not older than the window when the assist was
\* recorded.
MatchedBy(b, j, k) ==
    /\ k \in ScoredAssists(b)
    /\ CandidatesOf(b, k) # {}
    /\ j = Newest(CandidatesOf(b, k))
    /\ b.events[k].ts_epoch - b.events[j].ts_epoch <= DEDUPE_WINDOW_SEC

\* The assists of the log that were matched with the throw at place j.
AssistsMatching(b, j) == { k \in 1..Len(b.events) : MatchedBy(b, j, k) }

\* C21: a completed throw or huck of the log is matched by at most one
\* assist of the log, so it yields at most one inferred score.
C21_ThrowMatchedAtMostOnce ==
    \A j \in 1..Len(BOOK.events) :
        Cardinality(AssistsMatching(BOOK, j)) <= 1

(* -------------------------------- C22 --------------------------------- *)

\* ev is what the search for x (to y when y is given) looks for: a
\* completed throw or huck of the current game and point of b.
IsSought(b, ev, x, y) ==
    /\ ev.game = b.game_no
    /\ ev.point = b.point_no
    /\ IsCompletedBy(ev, x)
    /\ y = None \/ ev.receiver = y

\* The scan as specified, over events[1..i], newest first: it stops at the
\* first event of any kind that is older than the window.
RECURSIVE specified_scan(_, _, _, _)
specified_scan(b, x, y, i) ==
    IF i = 0 THEN NoneEv
    ELSE IF ~InWindow(b.events[i]) THEN NoneEv
    ELSE IF IsSought(b, b.events[i], x, y) THEN b.events[i]
    ELSE specified_scan(b, x, y, i - 1)

\* The most recent event sought if it is at most the window old, else none.
MostRecentSought(b, x, y) ==
    LET I == { i \in 1..Len(b.events) : IsSought(b, b.events[i], x, y) }
    IN  IF I # {} /\ InWindow(b.events[Newest(I)])
        THEN b.events[Newest(I)]
        ELSE NoneEv

\* The players that are searched for, and the receivers (None: any).
Throwers == {Jake, Mario, Eli}

Receivers == {None, Jake, Mario, Eli}

\* C22: in every reachable state and for every thrower x and receiver y,
\* _find_recent_completed returns what the specified scan returns: the most
\* recent completed throw or huck by x (to y) of the current game and point
\* if it is at most 4.0 s old, else none; never one of another point or
\* game.
C22_ScanAsSpecified ==
    \A x \in Throwers : \A y \in Receivers :
        LET found == _find_recent_completed(BOOK, x, y, DEDUPE_WINDOW_SEC)
        IN  /\ found = specified_scan(BOOK, x, y, Len(BOOK.events))
            /\ found = MostRecentSought(BOOK, x, y)
            /\ found # NoneEv =>
                 found.game = BOOK.game_no /\ found.point = BOOK.point_no

\* The two scans go different ways to the same result: the newest event
\* is none that is sought and is older than the window, where the specified
\* scan stops at once; the program's scan skips it and stops at a completed
\* throw of jake below it.
C22_Witness ==
    LET n == Len(BOOK.events)
    IN  /\ n >= 2
        /\ BOOK.events[n].type \notin {"throw", "huck"}
        /\ BOOK.events[n].point = BOOK.point_no
        /\ ~InWindow(BOOK.events[n])
        /\ \E i \in 1..(n - 1) : IsSought(BOOK, BOOK.events[i], Jake, None)

\* The program's scan skips the newest throw, which is of another thrower,
\* and returns the completed throw of jake below it.
C22_WitnessSkip ==
    LET n == Len(BOOK.events)
    IN  /\ n >= 2
        /\ IsSought(BOOK, BOOK.events[n], Mario, None)
        /\ _find_recent_completed(BOOK, Jake, None, DEDUPE_WINDOW_SEC)
             # NoneEv

(* -------------------------------- C23 --------------------------------- *)

\* Every event of the log carries the current game.
EventsOfCurrentGame ==
    \A i \in 1..Len(BOOK.events) : BOOK.events[i].game = BOOK.game_no

\* No event of the log carries a point after the current one.
EventsUpToCurrentPoint ==
    \A i \in 1..Len(BOOK.events) : BOOK.events[i].point <= BOOK.point_no

\* The events are in the order of their timestamps.
EventsInTimeOrder ==
    \A i \in 1..(Len(BOOK.events) - 1) :
        BOOK.events[i].ts_epoch <= BOOK.events[i + 1].ts_epoch

\* C23: in every reachable state every event of the log is tagged with the
\* current game and with a point that is at most the current point, and
\* the events are in non-decreasing order of their timestamps.
C23_EventLogConsistent ==
    /\ EventsOfCurrentGame
    /\ EventsUpToCurrentPoint
    /\ EventsInTimeOrder

\* What holds of the log in every reachable state.
C23_TimeOrder == EventsInTimeOrder

\* The tags are those of the claim in every state that is not the result of
\* undoing a new_game: the log is empty or starts in the current game.
C23_TagsUnlessNewGameUndone ==
    (BOOK.events # <<>> /\ BOOK.events[1].game # BOOK.game_no)
    \/ (EventsOfCurrentGame /\ EventsUpToCurrentPoint)

(* -------------------------------- C24 --------------------------------- *)

CounterNames == DOMAIN _blank

\* C24: in every reachable state and for every player, no counter is
\* negative, throws = completions + turnovers, and
\* huck_completions <= hucks <= throws.
C24_CountersConsistent ==
    \A n \in DOMAIN BOOK.players :
        LET p == BOOK.players[n]
        IN  /\ \A c \in CounterNames : p[c] >= 0
            /\ p.throws = p.completions + p.turnovers
            /\ p.huck_completions <= p.hucks
            /\ p.hucks <= p.throws

\* An operation has been undone and jake is left with a huck that was
\* turned over and a throw that was completed and was no huck.
C24_Witness ==
    /\ last.op = "undo"
    /\ last.result = "Undid last action"
    /\ BOOK.players[Jake].hucks >= 1
    /\ BOOK.players[Jake].turnovers >= 1
    /\ BOOK.players[Jake].completions >= 1
    /\ BOOK.players[Jake].throws > BOOK.players[Jake].hucks

(* -------------------------------- C25 --------------------------------- *)

\* The presentation sink has the statistics of the ledger as it is.
SinkUpToDate == sink = broadcast_stats(BOOK)

\* The worker has applied a command and is about to refresh.
WorkerApplied == worker.pc = "refresh"

\* C25: after the worker has applied a command, the statistics of the
\* resulting ledger are eventually emitted to the presentation sink, also
\* when no further command arrives: an update that the limiter skipped is
\* not lost.
C25_PushConverges == WorkerApplied ~> SinkUpToDate

\* What the limiter does guarantee: an update that comes a second or more
\* after the last emit of the worker is emitted.
C25_PushWhenNotLimited ==
    (WorkerApplied /\ now - worker.last_emit >= 1) ~> SinkUpToDate

====
